---- MODULE Spec2Model ----
(***************************************************************************)
(* A model of the exx front end: the lexer (src/src/lexer.rs), the token   *)
(* adapter and the recursive-descent parser (src/src/parser.rs), and the   *)
(* pipeline that main (src/src/main.rs) runs over them.                    *)
(*                                                                         *)
(* A character is a one-character string; the non-ASCII characters are     *)
(* written by their code point ("U+00E9").  A text is a sequence of        *)
(* characters.  The lexer's Peekable<Chars> is the sequence of characters  *)
(* it has not yielded yet.                                                 *)
(***************************************************************************)
EXTENDS Integers, Sequences, FiniteSets, TLC

VARIABLES source, input, current, collected, returned_none,
          phase, tokens, parser_current, declarations, result

vars == <<source, input, current, collected, returned_none,
          phase, tokens, parser_current, declarations, result>>

lexer_vars == <<source, input, current, collected, returned_none>>

parser_vars == <<tokens, parser_current, declarations, result>>

(***************************************************************************)
(* Bounds of the model.                                                    *)
(***************************************************************************)
MaxPieces == 3

MaxTail == 1

MaxMembers == 3

(***************************************************************************)
(* Characters.                                                             *)
(***************************************************************************)
NoChar == "<none>"

AsciiDigits == {"0", "1", "2", "3", "4", "5", "6", "7", "8", "9"}

AsciiLower == {"a", "b", "c", "d", "e", "f", "g", "h", "i", "j", "k", "l", "m",
               "n", "o", "p", "q", "r", "s", "t", "u", "v", "w", "x", "y", "z"}

AsciiUpper == {"A", "B", "C", "D", "E", "F", "G", "H", "I", "J", "K", "L", "M",
               "N", "O", "P", "Q", "R", "S", "T", "U", "V", "W", "X", "Y", "Z"}

WhiteSpace == {" ", "\t", "\n", "\r", "U+00A0", "U+3000"}

OperatorLead == {"+", "-", "*", "/", "=", "<", ">", "!", "&", "^", "%", "|"}

is_ascii_digit(c) == c \in AsciiDigits

is_ascii_alphanumeric(c) == c \in AsciiDigits \cup AsciiLower \cup AsciiUpper

is_whitespace(c) == c \in WhiteSpace

len_utf8(c) ==
  IF c \in {"U+00A0", "U+00E9"} THEN 2
  ELSE IF c = "U+3000" THEN 3
  ELSE 1

RECURSIVE ByteLen(_)
ByteLen(text) ==
  IF text = <<>> THEN 0 ELSE len_utf8(Head(text)) + ByteLen(Tail(text))

(***************************************************************************)
(* Position, Span, Token, DiagnosticError as the lexer builds them.        *)
(***************************************************************************)
Position(line, column, absolute) ==
  [line |-> line, column |-> column, absolute |-> absolute]

Span(start, end) == [start |-> start, end |-> end]

Token(token_type, text, span, errors) ==
  [token_type |-> token_type, text |-> text, span |-> span, errors |-> errors]

DiagnosticError(error_code, message, label, span) ==
  [error_code |-> error_code, message |-> message, label |-> label, span |-> span]

(***************************************************************************)
(* ErrorKind::code, ::message, ::label (src/src/token.rs).  A kind is a    *)
(* record [kind, arg].                                                     *)
(***************************************************************************)
ErrorKinds == {"UnexpectedCharacter", "InvalidDecimal", "InvalidOperator",
               "InvalidEscape", "UnterminatedString", "UnterminatedBlockComment"}

ErrorKind_code(k) ==
  CASE k.kind = "UnexpectedCharacter" -> "E000"
    [] k.kind = "InvalidDecimal" -> "E001"
    [] k.kind = "InvalidOperator" -> "E002"
    [] k.kind = "InvalidEscape" -> "E003"
    [] k.kind = "UnterminatedString" -> "E004"
    [] k.kind = "UnterminatedBlockComment" -> "E005"

ErrorKind_message(k) ==
  CASE k.kind = "UnexpectedCharacter" -> <<"Unexpected character: '", k.arg, "'">>
    [] k.kind = "InvalidDecimal" -> <<"Invalid decimal number">>
    [] k.kind = "InvalidOperator" -> <<"Invalid operator: ", k.arg>>
    [] k.kind = "InvalidEscape" -> <<"Invalid escape sequence: \\", k.arg>>
    [] k.kind = "UnterminatedString" -> <<"Unterminated string literal">>
    [] k.kind = "UnterminatedBlockComment" -> <<"Unterminated block comment">>

ErrorKind_label(k) ==
  CASE k.kind = "UnexpectedCharacter" -> "Unexpected character"
    [] k.kind = "InvalidDecimal" -> "Expected digits after decimal point"
    [] k.kind = "InvalidOperator" -> "Invalid operator"
    [] k.kind = "InvalidEscape" -> "Invalid escape sequence"
    [] k.kind = "UnterminatedString" -> "Unterminated string"
    [] k.kind = "UnterminatedBlockComment" -> "Unterminated block comment"

(***************************************************************************)
(* The lexer.  A lexer value L is [input, current].                        *)
(***************************************************************************)
Lexer_new(src) == [input |-> src, current |-> Position(1, 1, 0)]

\* advance that counts characters, not bytes, in absolute.
Lexer_advance_counts_chars(L) ==
  IF L.input = <<>>
  THEN [c |-> NoChar, start_pos |-> L.current, L |-> L]
  ELSE LET c == Head(L.input)
           absolute == L.current.absolute + 1
           moved == IF c = "\n"
                    THEN Position(L.current.line + 1, 1, absolute)
                    ELSE Position(L.current.line, L.current.column + 1, absolute)
       IN [c |-> c, start_pos |-> L.current,
           L |-> [input |-> Tail(L.input), current |-> moved]]

\* Lexer::advance without the newline arm: a newline moves the column like
\* any other character and the line stays.
Lexer_advance_ignores_newline(L) ==
  IF L.input = <<>>
  THEN [c |-> NoChar, start_pos |-> L.current, L |-> L]
  ELSE LET c == Head(L.input)
           absolute == L.current.absolute + len_utf8(c)
           moved == Position(L.current.line, L.current.column + 1, absolute)
       IN [c |-> c, start_pos |-> L.current,
           L |-> [input |-> Tail(L.input), current |-> moved]]

\* Lexer::advance counting from a cursor that is shared by all lexers (the
\* one of the running lexer) instead of the cursor of its own instance.
Lexer_advance_shared_cursor(L) ==
  IF L.input = <<>>
  THEN [c |-> NoChar, start_pos |-> L.current, L |-> L]
  ELSE LET c == Head(L.input)
           absolute == current.absolute + len_utf8(c)
           moved == IF c = "\n"
                    THEN Position(current.line + 1, 1, absolute)
                    ELSE Position(current.line, current.column + 1, absolute)
       IN [c |-> c, start_pos |-> L.current,
           L |-> [input |-> Tail(L.input), current |-> moved]]

Lexer_advance(L) ==
  IF L.input = <<>>
  THEN [c |-> NoChar, start_pos |-> L.current, L |-> L]
  ELSE LET c == Head(L.input)
           absolute == L.current.absolute + len_utf8(c)
           moved == IF c = "\n"
                    THEN Position(L.current.line + 1, 1, absolute)
                    ELSE Position(L.current.line, L.current.column + 1, absolute)
       IN [c |-> c, start_pos |-> L.current,
           L |-> [input |-> Tail(L.input), current |-> moved]]

Lexer_peek(L) == IF L.input = <<>> THEN NoChar ELSE Head(L.input)

RECURSIVE skip_whitespace(_)
skip_whitespace(L) ==
  IF Lexer_peek(L) # NoChar /\ is_whitespace(Lexer_peek(L))
  THEN skip_whitespace(Lexer_advance(L).L)
  ELSE L

\* The loop `while let Some(c) = self.peek() { if c.is_ascii_digit() ...`:
\* [text, L] after the maximal run of digits has been pushed.
RECURSIVE read_digits(_, _)
read_digits(L, text) ==
  IF Lexer_peek(L) # NoChar /\ is_ascii_digit(Lexer_peek(L))
  THEN read_digits(Lexer_advance(L).L, Append(text, Lexer_peek(L)))
  ELSE [text |-> text, L |-> L]

\* read_number without the has_digit test: "1." comes back as a Number.
read_number_accepts_trailing_dot(L, first_char, start_pos) ==
  LET int == read_digits(L, <<first_char>>)
  IN IF Lexer_peek(int.L) = "."
     THEN LET dot == Lexer_advance(int.L).L
              frac == read_digits(dot, Append(int.text, "."))
          IN [token |-> Token("Number", frac.text, Span(start_pos, frac.L.current), <<>>),
              L |-> frac.L]
     ELSE [token |-> Token("Number", int.text, Span(start_pos, int.L.current), <<>>),
           L |-> int.L]

read_number(L, first_char, start_pos) ==
  LET int == read_digits(L, <<first_char>>)
  IN IF Lexer_peek(int.L) = "."
     THEN LET dot == Lexer_advance(int.L).L
              frac == read_digits(dot, Append(int.text, "."))
              has_digit == Len(frac.text) > Len(int.text) + 1
              span == Span(start_pos, frac.L.current)
          IN IF ~has_digit
             THEN [token |-> Token("Error", <<"Invalid decimal number">>, span,
                                   <<DiagnosticError("E001", <<"Invalid decimal number">>,
                                                     "Expected digits after decimal point",
                                                     span)>>),
                   L |-> frac.L]
             ELSE [token |-> Token("Number", frac.text, span, <<>>), L |-> frac.L]
     ELSE [token |-> Token("Number", int.text, Span(start_pos, int.L.current), <<>>),
           L |-> int.L]

RECURSIVE read_identifier_chars(_, _)
read_identifier_chars(L, text) ==
  IF Lexer_peek(L) # NoChar /\ (is_ascii_alphanumeric(Lexer_peek(L)) \/ Lexer_peek(L) = "_")
  THEN read_identifier_chars(Lexer_advance(L).L, Append(text, Lexer_peek(L)))
  ELSE [text |-> text, L |-> L]

LexerKeywords == {<<"l", "e", "t">>, <<"v", "a", "r">>, <<"t", "y", "p", "e">>,
                  <<"i", "f">>, <<"e", "l", "s", "e">>,
                  <<"r", "e", "t", "u", "r", "n">>}

identifier_type(identifier) ==
  IF identifier \in LexerKeywords THEN "Keyword" ELSE "Identifier"

\* read_identifier with the span closed at the position the token starts at.
read_identifier_empty_span(L, first_char, start_pos) ==
  LET r == read_identifier_chars(L, <<first_char>>)
  IN [token |-> Token(identifier_type(r.text), r.text,
                      Span(start_pos, start_pos), <<>>),
      L |-> r.L]

read_identifier(L, first_char, start_pos) ==
  LET r == read_identifier_chars(L, <<first_char>>)
  IN [token |-> Token(identifier_type(r.text), r.text,
                      Span(start_pos, r.L.current), <<>>),
      L |-> r.L]

\* operator_type without the arm that makes "->" one token.
operator_type_without_arrow(first_char, next_char) ==
  CASE first_char \in {"=", "!", "<", ">", "+", "-"} /\ next_char = "=" ->
         [t |-> CASE first_char = "=" -> "EqualEqual"
                  [] first_char = "!" -> "NotEqual"
                  [] first_char = "<" -> "LessEqual"
                  [] first_char = ">" -> "GreaterEqual"
                  [] first_char = "+" -> "PlusEqual"
                  [] first_char = "-" -> "MinusEqual",
          two |-> TRUE]
    [] first_char = "&" /\ next_char = "&" -> [t |-> "And", two |-> TRUE]
    [] first_char = "|" /\ next_char = "|" -> [t |-> "Or", two |-> TRUE]
    [] OTHER ->
         [t |-> CASE first_char = "=" -> "Equal"
                  [] first_char = "!" -> "Bang"
                  [] first_char = "<" -> "Less"
                  [] first_char = ">" -> "Greater"
                  [] first_char = "+" -> "Plus"
                  [] first_char = "-" -> "Minus"
                  [] first_char = "*" -> "Star"
                  [] first_char = "/" -> "Slash"
                  [] first_char = "%" -> "Modulo"
                  [] first_char = "&" -> "BitwiseAnd"
                  [] first_char = "|" -> "BitwiseOr"
                  [] first_char = "^" -> "BitwiseXor"
                  [] OTHER -> "Error",
          two |-> FALSE]

\* One arm of read_operator's match: the token type, and whether the peeked
\* character is consumed too.
operator_type(first_char, next_char) ==
  CASE first_char = "=" ->
         IF next_char = "=" THEN [t |-> "EqualEqual", two |-> TRUE]
         ELSE [t |-> "Equal", two |-> FALSE]
    [] first_char = "!" ->
         IF next_char = "=" THEN [t |-> "NotEqual", two |-> TRUE]
         ELSE [t |-> "Bang", two |-> FALSE]
    [] first_char = "<" ->
         IF next_char = "=" THEN [t |-> "LessEqual", two |-> TRUE]
         ELSE [t |-> "Less", two |-> FALSE]
    [] first_char = ">" ->
         IF next_char = "=" THEN [t |-> "GreaterEqual", two |-> TRUE]
         ELSE [t |-> "Greater", two |-> FALSE]
    [] first_char = "+" ->
         IF next_char = "=" THEN [t |-> "PlusEqual", two |-> TRUE]
         ELSE [t |-> "Plus", two |-> FALSE]
    [] first_char = "-" ->
         IF next_char = ">" THEN [t |-> "Arrow", two |-> TRUE]
         ELSE IF next_char = "=" THEN [t |-> "MinusEqual", two |-> TRUE]
         ELSE [t |-> "Minus", two |-> FALSE]
    [] first_char = "*" -> [t |-> "Star", two |-> FALSE]
    [] first_char = "/" -> [t |-> "Slash", two |-> FALSE]
    [] first_char = "%" -> [t |-> "Modulo", two |-> FALSE]
    [] first_char = "&" ->
         IF next_char = "&" THEN [t |-> "And", two |-> TRUE]
         ELSE [t |-> "BitwiseAnd", two |-> FALSE]
    [] first_char = "|" ->
         IF next_char = "|" THEN [t |-> "Or", two |-> TRUE]
         ELSE [t |-> "BitwiseOr", two |-> FALSE]
    [] first_char = "^" -> [t |-> "BitwiseXor", two |-> FALSE]
    [] OTHER -> [t |-> "Error", two |-> FALSE]

\* read_operator that looks at the operator without consuming it.
read_operator_peeks_only(L, start_pos) ==
  LET first == Lexer_advance(L)
      op == operator_type(first.c, Lexer_peek(first.L))
      after == IF op.two THEN Lexer_advance(first.L).L ELSE first.L
      text == IF op.t = "Error" THEN <<"Invalid operator: ", first.c>> ELSE <<>>
  IN [token |-> Token(op.t, text, Span(start_pos, after.current), <<>>),
      L |-> L]

read_operator(L, start_pos) ==
  LET first == Lexer_advance(L)
      op == operator_type(first.c, Lexer_peek(first.L))
      after == IF op.two THEN Lexer_advance(first.L).L ELSE first.L
      text == IF op.t = "Error" THEN <<"Invalid operator: ", first.c>> ELSE <<>>
  IN [token |-> Token(op.t, text, Span(start_pos, after.current), <<>>),
      L |-> after]

\* escape_value without the 't' arm: "\t" is handled as an unknown escape.
escape_value_without_tab(escaped) ==
  CASE escaped = "n" -> "\n"
    [] escaped = "r" -> "\r"
    [] escaped = "\\" -> "\\"
    [] escaped = "\"" -> "\""
    [] OTHER -> NoChar

\* What a recognized escape character pushes onto the decoded string;
\* NoChar for an escape character the match does not list.
escape_value(escaped) ==
  CASE escaped = "n" -> "\n"
    [] escaped = "t" -> "\t"
    [] escaped = "r" -> "\r"
    [] escaped = "\\" -> "\\"
    [] escaped = "\"" -> "\""
    [] OTHER -> NoChar

\* The end of read_string without the push of the E004 diagnostic.
unterminated_string_without_diagnostic(L, start_pos, errors) ==
  [token |-> Token("Error", <<"String literal error">>, Span(start_pos, L.current), errors),
   L |-> L]

unterminated_string(L, start_pos, errors) ==
  [token |-> Token("Error", <<"String literal error">>,
                   Span(start_pos, L.current),
                   Append(errors,
                          DiagnosticError("E004", <<"Unterminated string literal">>,
                                          "Unterminated string",
                                          Span(start_pos, L.current)))),
   L |-> L]

\* The loop of read_string, from the state after the opening quote.
RECURSIVE read_string_loop(_, _, _, _)
read_string_loop(L, start_pos, string, errors) ==
  LET a == Lexer_advance(L)
  IN IF a.c = NoChar
     THEN unterminated_string(a.L, start_pos, errors)
     ELSE IF a.c = "\""
     THEN [token |-> Token("String", string, Span(start_pos, a.L.current), errors),
           L |-> a.L]
     ELSE IF a.c = "\\"
     THEN LET escape_start == a.L.current
              e == Lexer_advance(a.L)
          IN IF e.c = NoChar
             THEN unterminated_string(
                    e.L, start_pos,
                    Append(errors,
                           DiagnosticError("E003", <<"Unterminated escape sequence">>,
                                           "Unterminated escape sequence",
                                           Span(escape_start, e.L.current))))
             ELSE IF escape_value(e.c) # NoChar
             THEN read_string_loop(e.L, start_pos,
                                   Append(string, escape_value(e.c)), errors)
             ELSE read_string_loop(
                    e.L, start_pos, Append(string, e.c),
                    Append(errors,
                           DiagnosticError("E003", <<"Invalid escape sequence: \\", e.c>>,
                                           "Invalid escape sequence",
                                           Span(escape_start, e.L.current))))
     ELSE read_string_loop(a.L, start_pos, Append(string, a.c), errors)

read_string(L, start_pos) == read_string_loop(L, start_pos, <<>>, <<>>)

\* The arm of Lexer::next's match that first_char selects.
next_arm(first_char) ==
  CASE first_char = NoChar -> "None"
    [] first_char \in AsciiDigits -> "number"
    [] first_char \in AsciiLower \cup AsciiUpper \cup {"_"} -> "identifier"
    [] first_char \in OperatorLead -> "operator"
    [] first_char = "\"" -> "string"
    [] first_char = ";" -> "semicolon"
    [] is_whitespace(first_char) -> "whitespace"
    [] OTHER -> "unexpected"

\* Lexer::next on L: [some, token, L].
RECURSIVE Lexer_next(_)
Lexer_next(L) ==
  LET skipped == skip_whitespace(L)
      start_pos == skipped.current
      first_char == Lexer_peek(skipped)
      arm == next_arm(first_char)
      a == Lexer_advance(skipped)
      Some(r) == [some |-> TRUE, token |-> r.token, L |-> r.L]
  IN CASE arm = "None" -> [some |-> FALSE, token |-> <<>>, L |-> skipped]
       [] arm = "number" -> Some(read_number(a.L, a.c, start_pos))
       [] arm = "identifier" -> Some(read_identifier(a.L, a.c, start_pos))
       [] arm = "operator" -> Some(read_operator(skipped, start_pos))
       [] arm = "string" -> Some(read_string(a.L, start_pos))
       [] arm = "semicolon" ->
            Some([token |-> Token("Semicolon", <<>>, Span(start_pos, a.L.current), <<>>),
                  L |-> a.L])
       [] arm = "whitespace" -> Lexer_next(skipped)
       [] arm = "unexpected" ->
            Some([token |-> Token("Error", <<"Unexpected character: '", first_char, "'">>,
                                  Span(start_pos, a.L.current),
                                  <<DiagnosticError(
                                      "E000", <<"Unexpected character: '", first_char, "'">>,
                                      "Unexpected character",
                                      Span(start_pos, a.L.current))>>),
                  L |-> a.L])

(***************************************************************************)
(* The parser (src/src/parser.rs).  A parser token is [kind, value]; the   *)
(* value of a kind without payload is <<>>.  `cur` is Parser::current, an  *)
(* index from 0, so tokens[cur] of the code is toks[cur + 1].              *)
(*                                                                         *)
(* Every parsing operator returns a record [st, cur, val, msg]:            *)
(*   st = "ok"     Ok(val), the cursor left at cur;                        *)
(*   st = "err"    Err(ParseError { message: msg }), raised at cursor cur; *)
(*   st = "panic"  an index outside the token buffer was read at cur.      *)
(***************************************************************************)
K(kind) == [kind |-> kind, value |-> <<>>]

Ok(cur, val) == [st |-> "ok", cur |-> cur, val |-> val, msg |-> <<>>]

Err(cur, msg) == [st |-> "err", cur |-> cur, val |-> <<>>, msg |-> msg]

Panic(cur) == [st |-> "panic", cur |-> cur, val |-> <<>>, msg |-> <<"index out of bounds">>]

None == [node |-> "None"]

\* tokens[i] panics for i outside 0 .. tokens.len() - 1.
OutOfBounds(toks, i) == i < 0 \/ i >= Len(toks)

is_at_end(toks, cur) == toks[cur + 1].kind = "Eof"

check(toks, cur, expected) ==
  /\ ~is_at_end(toks, cur)
  /\ toks[cur + 1].kind = expected.kind
  /\ \/ expected.kind \in {"Identifier", "Number", "String"}
     \/ toks[cur + 1].value = expected.value

\* val is whether one of `kinds` matched (and the cursor advanced).
match_token(toks, cur, kinds) ==
  IF OutOfBounds(toks, cur) THEN Panic(cur)
  ELSE IF \E kind \in kinds : check(toks, cur, kind) THEN Ok(cur + 1, TRUE)
  ELSE Ok(cur, FALSE)

consume(toks, cur, kind, message) ==
  IF OutOfBounds(toks, cur) THEN Panic(cur)
  ELSE IF check(toks, cur, kind) THEN Ok(cur + 1, toks[cur + 1])
  ELSE Err(cur, <<message>>)

consume_identifier(toks, cur, message) ==
  IF OutOfBounds(toks, cur) THEN Panic(cur)
  ELSE IF is_at_end(toks, cur) THEN Err(cur, <<message>>)
  ELSE IF toks[cur + 1].kind = "Identifier" THEN Ok(cur + 1, toks[cur + 1].value)
  ELSE Err(cur, <<message>>)

previous_token_kind(toks, cur) ==
  IF OutOfBounds(toks, cur - 1) THEN Panic(cur) ELSE Ok(cur, toks[cur])

\* The scan of lambda_check: the index at which its while loop stops.
RECURSIVE lambda_check_scan(_, _, _)
lambda_check_scan(toks, index, paren_count) ==
  IF ~(index < Len(toks)) THEN index
  ELSE IF toks[index + 1].kind = "LeftParen"
  THEN lambda_check_scan(toks, index + 1, paren_count + 1)
  ELSE IF toks[index + 1].kind = "RightParen"
  THEN IF paren_count - 1 = 0 THEN index
       ELSE lambda_check_scan(toks, index + 1, paren_count - 1)
  ELSE lambda_check_scan(toks, index + 1, paren_count)

\* lambda_check without the test for '->' after the closing ')'.
lambda_check_without_arrow(toks, cur) ==
  LET index == lambda_check_scan(toks, cur, 1)
  IN /\ index < Len(toks)
     /\ toks[index + 1].kind = "RightParen"

lambda_check(toks, cur) ==
  LET index == lambda_check_scan(toks, cur, 1)
  IN /\ index < Len(toks)
     /\ toks[index + 1].kind = "RightParen"
     /\ index + 1 < Len(toks)
     /\ toks[index + 2].kind = "Arrow"

\* A lambda_check that scans with the parser's own cursor and leaves it at
\* the index where the scan stopped.
lambda_check_call_moves_cursor(P) ==
  [val |-> lambda_check(P.tokens, P.current), tokens |-> P.tokens,
   current |-> lambda_check_scan(P.tokens, P.current, 1)]

\* self.lambda_check() on the parser P = [tokens, current]: the boolean it
\* returns and the parser after the call (`&self`: index is a local copy).
lambda_check_call(P) ==
  [val |-> lambda_check(P.tokens, P.current), tokens |-> P.tokens,
   current |-> P.current]

\* str::parse::<f64> on the lexemes of the model, which hold digits and '.'
\* only: Rust accepts a digit run with at most one '.', before, inside or
\* after it.  The value is mantissa / 10^scale with no trailing zero in the
\* fraction; [valid |-> FALSE] is the Err of parse.
RECURSIVE digits_value(_, _)
digits_value(text, acc) ==
  IF text = <<>> THEN acc
  ELSE digits_value(Tail(text),
                    acc * 10 + (CHOOSE d \in 0 .. 9 : ToString(d) = Head(text)))

RECURSIVE strip_zeros(_)
strip_zeros(text) ==
  IF text # <<>> /\ text[Len(text)] = "0"
  THEN strip_zeros(SubSeq(text, 1, Len(text) - 1))
  ELSE text

parse_f64(n) ==
  LET dots == {i \in 1 .. Len(n) : n[i] = "."}
      digits == {i \in 1 .. Len(n) : n[i] \in AsciiDigits}
      dot == IF dots = {} THEN Len(n) + 1 ELSE CHOOSE i \in dots : TRUE
      fraction == strip_zeros(SubSeq(n, dot + 1, Len(n)))
  IN IF digits = {} \/ Cardinality(dots) > 1 \/ Cardinality(dots) + Cardinality(digits) # Len(n)
     THEN [valid |-> FALSE, mantissa |-> 0, scale |-> 0]
     ELSE [valid |-> TRUE,
           mantissa |-> digits_value(SubSeq(n, 1, dot - 1) \o fraction, 0),
           scale |-> Len(fraction)]

\* Every rule of the grammar is reached through parse: rule(toks, cur, ...)
\* is the call self.rule(...) with the cursor at cur, and rule_body is the
\* body of that method.
RECURSIVE parse(_, _, _, _, _)

declaration(toks, cur) == parse("declaration", toks, cur, <<>>, <<>>)

declaration_list(toks, cur, a) == parse("declaration_list", toks, cur, a, <<>>)

class_members(toks, cur, a, b) == parse("class_members", toks, cur, a, b)

function_declaration(toks, cur) == parse("function_declaration", toks, cur, <<>>, <<>>)

variable_declaration(toks, cur) == parse("variable_declaration", toks, cur, <<>>, <<>>)

parse_type(toks, cur) == parse("parse_type", toks, cur, <<>>, <<>>)

parse_type_list(toks, cur, a) == parse("parse_type_list", toks, cur, a, <<>>)

parameter_list(toks, cur, a) == parse("parameter_list", toks, cur, a, <<>>)

expression(toks, cur) == parse("expression", toks, cur, <<>>, <<>>)

logical_or_loop(toks, cur, a) == parse("logical_or_loop", toks, cur, a, <<>>)

logical_and(toks, cur) == parse("logical_and", toks, cur, <<>>, <<>>)

logical_and_loop(toks, cur, a) == parse("logical_and_loop", toks, cur, a, <<>>)

equality(toks, cur) == parse("equality", toks, cur, <<>>, <<>>)

equality_loop(toks, cur, a) == parse("equality_loop", toks, cur, a, <<>>)

comparison(toks, cur) == parse("comparison", toks, cur, <<>>, <<>>)

comparison_loop(toks, cur, a) == parse("comparison_loop", toks, cur, a, <<>>)

addition(toks, cur) == parse("addition", toks, cur, <<>>, <<>>)

addition_loop(toks, cur, a) == parse("addition_loop", toks, cur, a, <<>>)

multiplication(toks, cur) == parse("multiplication", toks, cur, <<>>, <<>>)

multiplication_loop(toks, cur, a) == parse("multiplication_loop", toks, cur, a, <<>>)

unary(toks, cur) == parse("unary", toks, cur, <<>>, <<>>)

primary(toks, cur) == parse("primary", toks, cur, <<>>, <<>>)

primary_postfix(toks, cur, a) == parse("primary_postfix", toks, cur, a, <<>>)

struct_fields(toks, cur, a) == parse("struct_fields", toks, cur, a, <<>>)

argument_list(toks, cur, a) == parse("argument_list", toks, cur, a, <<>>)

parse_parameters(toks, cur) == parse("parse_parameters", toks, cur, <<>>, <<>>)

parse_lambda(toks, cur) == parse("parse_lambda", toks, cur, <<>>, <<>>)

import_declaration(toks, cur) ==
  LET module_name == consume_identifier(toks, cur, "Expected module name after 'import'")
      semi == consume(toks, module_name.cur, K("Semicolon"),
                      "Expected ';' after import declaration")
  IN IF module_name.st # "ok" THEN module_name
     ELSE IF semi.st # "ok" THEN semi
     ELSE Ok(semi.cur, [node |-> "Import", name |-> module_name.val])

\* `while !self.check(&RightBrace) && !self.is_at_end() { v.push(self.declaration()?) }`
declaration_list_body(toks, cur, acc) ==
  IF OutOfBounds(toks, cur) THEN Panic(cur)
  ELSE IF check(toks, cur, K("RightBrace")) \/ is_at_end(toks, cur) THEN Ok(cur, acc)
  ELSE LET d == declaration(toks, cur)
       IN IF d.st # "ok" THEN d
          ELSE declaration_list(toks, d.cur, Append(acc, d.val))

module_declaration(toks, cur) ==
  LET name == consume_identifier(toks, cur, "Expected module name")
      open == consume(toks, name.cur, K("LeftBrace"), "Expected '{' after module name")
      body == declaration_list(toks, open.cur, <<>>)
      close == consume(toks, body.cur, K("RightBrace"), "Expected '}' after module body")
  IN IF name.st # "ok" THEN name
     ELSE IF open.st # "ok" THEN open
     ELSE IF body.st # "ok" THEN body
     ELSE IF close.st # "ok" THEN close
     ELSE Ok(close.cur, [node |-> "ModuleDecl", name |-> name.val,
                         declarations |-> body.val])

\* The while loop of class_declaration stepping over a token that starts
\* neither a field nor a method.
class_members_skips_other(toks, cur, fields, methods) ==
  IF OutOfBounds(toks, cur) THEN Panic(cur)
  ELSE IF check(toks, cur, K("RightBrace")) \/ is_at_end(toks, cur)
  THEN Ok(cur, <<fields, methods>>)
  ELSE IF check(toks, cur, K("Fn"))
  THEN LET m == function_declaration(toks, cur + 1)
       IN IF m.st # "ok" THEN m
          ELSE class_members(toks, m.cur, fields, Append(methods, m.val))
  ELSE IF check(toks, cur, K("Let")) \/ check(toks, cur, K("Var"))
  THEN LET f == variable_declaration(toks, cur + 1)
       IN IF f.st # "ok" THEN f
          ELSE class_members(toks, f.cur, Append(fields, f.val), methods)
  ELSE class_members(toks, cur + 1, fields, methods)

\* The while loop of class_declaration; val is <<fields, methods>>.
class_members_body(toks, cur, fields, methods) ==
  IF OutOfBounds(toks, cur) THEN Panic(cur)
  ELSE IF check(toks, cur, K("RightBrace")) \/ is_at_end(toks, cur)
  THEN Ok(cur, <<fields, methods>>)
  ELSE IF check(toks, cur, K("Fn"))
  THEN LET m == function_declaration(toks, cur + 1)
       IN IF m.st # "ok" THEN m
          ELSE class_members(toks, m.cur, fields, Append(methods, m.val))
  ELSE IF check(toks, cur, K("Let")) \/ check(toks, cur, K("Var"))
  THEN LET f == variable_declaration(toks, cur + 1)
       IN IF f.st # "ok" THEN f
          ELSE class_members(toks, f.cur, Append(fields, f.val), methods)
  ELSE Err(cur, <<"Expected field declaration starting with 'let' or 'var', or a method declaration starting with 'fn'.">>)

class_declaration(toks, cur) ==
  LET name == consume_identifier(toks, cur, "Expected class name")
      open == consume(toks, name.cur, K("LeftBrace"), "Expected '{' after class name")
      members == class_members(toks, open.cur, <<>>, <<>>)
      close == consume(toks, members.cur, K("RightBrace"), "Expected '}' after class body")
  IN IF name.st # "ok" THEN name
     ELSE IF open.st # "ok" THEN open
     ELSE IF members.st # "ok" THEN members
     ELSE IF close.st # "ok" THEN close
     ELSE Ok(close.cur, [node |-> "ClassDecl", name |-> name.val,
                         fields |-> members.val[1], methods |-> members.val[2]])

\* `loop { name (: type)?; push; if !match(Comma) break }` of
\* function_declaration and of parse_parameters.
parameter_list_body(toks, cur, acc) ==
  LET name == consume_identifier(toks, cur, "Expected parameter name")
      colon == match_token(toks, name.cur, {K("Colon")})
      type == IF colon.val THEN parse_type(toks, colon.cur) ELSE Ok(colon.cur, None)
      params == Append(acc, [name |-> name.val, type_annotation |-> type.val])
      comma == match_token(toks, type.cur, {K("Comma")})
  IN IF name.st # "ok" THEN name
     ELSE IF colon.st # "ok" THEN colon
     ELSE IF type.st # "ok" THEN type
     ELSE IF comma.st # "ok" THEN comma
     ELSE IF comma.val THEN parameter_list(toks, comma.cur, params)
     ELSE Ok(comma.cur, params)

function_declaration_body(toks, cur) ==
  LET name == consume_identifier(toks, cur, "Expected function name")
      open == consume(toks, name.cur, K("LeftParen"), "Expected '(' after function name")
      params == IF OutOfBounds(toks, open.cur) THEN Panic(open.cur)
                ELSE IF ~check(toks, open.cur, K("RightParen"))
                THEN parameter_list(toks, open.cur, <<>>)
                ELSE Ok(open.cur, <<>>)
      close == consume(toks, params.cur, K("RightParen"), "Expected ')' after parameters")
      arrow == match_token(toks, close.cur, {K("Arrow")})
      return_type == IF arrow.val THEN parse_type(toks, arrow.cur) ELSE Ok(arrow.cur, None)
      lbrace == consume(toks, return_type.cur, K("LeftBrace"),
                        "Expected '{' before function body")
      body == declaration_list(toks, lbrace.cur, <<>>)
      rbrace == consume(toks, body.cur, K("RightBrace"), "Expected '}' after function body")
  IN IF name.st # "ok" THEN name
     ELSE IF open.st # "ok" THEN open
     ELSE IF params.st # "ok" THEN params
     ELSE IF close.st # "ok" THEN close
     ELSE IF arrow.st # "ok" THEN arrow
     ELSE IF return_type.st # "ok" THEN return_type
     ELSE IF lbrace.st # "ok" THEN lbrace
     ELSE IF body.st # "ok" THEN body
     ELSE IF rbrace.st # "ok" THEN rbrace
     ELSE Ok(rbrace.cur, [node |-> "FunctionDecl", name |-> name.val,
                          params |-> params.val, return_type |-> return_type.val,
                          body |-> body.val])

variable_declaration_body(toks, cur) ==
  LET keyword == previous_token_kind(toks, cur)
      is_mutable == keyword.val.kind = "Var"
      name == consume_identifier(toks, cur, "Expected variable name")
      colon == match_token(toks, name.cur, {K("Colon")})
      type == IF colon.val THEN parse_type(toks, colon.cur) ELSE Ok(colon.cur, None)
      equal == match_token(toks, type.cur, {K("Equal")})
      init == IF equal.val THEN expression(toks, equal.cur) ELSE Ok(equal.cur, None)
      semi == consume(toks, init.cur, K("Semicolon"),
                      "Expected ';' after variable declaration")
  IN IF keyword.st # "ok" THEN keyword
     ELSE IF name.st # "ok" THEN name
     ELSE IF colon.st # "ok" THEN colon
     ELSE IF type.st # "ok" THEN type
     ELSE IF equal.st # "ok" THEN equal
     ELSE IF init.st # "ok" THEN init
     ELSE IF semi.st # "ok" THEN semi
     ELSE Ok(semi.cur, [node |-> "VariableDecl", is_mutable |-> is_mutable,
                        name |-> name.val, type_annotation |-> type.val,
                        initializer |-> init.val])

statement(toks, cur) ==
  LET expr == expression(toks, cur)
      semi == consume(toks, expr.cur, K("Semicolon"), "Expected ';' after expression")
  IN IF expr.st # "ok" THEN expr
     ELSE IF semi.st # "ok" THEN semi
     ELSE Ok(semi.cur, [node |-> "Expression", expr |-> expr.val])

return_statement(toks, cur) ==
  LET expr == IF OutOfBounds(toks, cur) THEN Panic(cur)
              ELSE IF ~check(toks, cur, K("Semicolon")) THEN expression(toks, cur)
              ELSE Ok(cur, None)
      semi == consume(toks, expr.cur, K("Semicolon"), "Expected ';' after return statement")
  IN IF expr.st # "ok" THEN expr
     ELSE IF semi.st # "ok" THEN semi
     ELSE Ok(semi.cur, [node |-> "Return", expr |-> expr.val])

declaration_body(toks, cur) ==
  IF OutOfBounds(toks, cur) THEN Panic(cur)
  ELSE IF check(toks, cur, K("Import")) THEN import_declaration(toks, cur + 1)
  ELSE IF check(toks, cur, K("Module")) THEN module_declaration(toks, cur + 1)
  ELSE IF check(toks, cur, K("Class")) THEN class_declaration(toks, cur + 1)
  ELSE IF check(toks, cur, K("Fn")) THEN function_declaration(toks, cur + 1)
  ELSE IF check(toks, cur, K("Return")) THEN return_statement(toks, cur + 1)
  ELSE IF check(toks, cur, K("Let")) \/ check(toks, cur, K("Var"))
  THEN variable_declaration(toks, cur + 1)
  ELSE statement(toks, cur)

\* `loop { params.push(self.parse_type()?); if !match(Comma) break }`
parse_type_list_body(toks, cur, acc) ==
  LET type == parse_type(toks, cur)
      comma == match_token(toks, type.cur, {K("Comma")})
  IN IF type.st # "ok" THEN type
     ELSE IF comma.st # "ok" THEN comma
     ELSE IF comma.val THEN parse_type_list(toks, comma.cur, Append(acc, type.val))
     ELSE Ok(comma.cur, Append(acc, type.val))

parse_type_body(toks, cur) ==
  IF OutOfBounds(toks, cur) THEN Panic(cur)
  ELSE IF check(toks, cur, K("LeftParen"))
  THEN LET params == parse_type_list(toks, cur + 1, <<>>)
           close == consume(toks, params.cur, K("RightParen"),
                            "Expected ')' in function type")
           arrow == consume(toks, close.cur, K("Arrow"), "Expected '->' in function type")
           return_type == parse_type(toks, arrow.cur)
       IN IF params.st # "ok" THEN params
          ELSE IF close.st # "ok" THEN close
          ELSE IF arrow.st # "ok" THEN arrow
          ELSE IF return_type.st # "ok" THEN return_type
          ELSE Ok(return_type.cur, [node |-> "Function", params |-> params.val,
                                    return_type |-> return_type.val])
  ELSE LET name == consume_identifier(toks, cur, "Expected type name")
           less == match_token(toks, name.cur, {K("Less")})
           params == parse_type_list(toks, less.cur, <<>>)
           greater == consume(toks, params.cur, K("Greater"), "Expected '>' in generic type")
       IN IF name.st # "ok" THEN name
          ELSE IF less.st # "ok" THEN less
          ELSE IF ~less.val THEN Ok(less.cur, [node |-> "Simple", name |-> name.val])
          ELSE IF params.st # "ok" THEN params
          ELSE IF greater.st # "ok" THEN greater
          ELSE Ok(greater.cur, [node |-> "Generic", name |-> name.val,
                                params |-> params.val])

parse_parameters_body(toks, cur) ==
  LET params == IF OutOfBounds(toks, cur) THEN Panic(cur)
                ELSE IF ~check(toks, cur, K("RightParen"))
                THEN parameter_list(toks, cur, <<>>)
                ELSE Ok(cur, <<>>)
      close == consume(toks, params.cur, K("RightParen"), "Expected ')' after parameters")
  IN IF params.st # "ok" THEN params
     ELSE IF close.st # "ok" THEN close
     ELSE Ok(close.cur, params.val)

parse_lambda_body(toks, cur) ==
  LET params == parse_parameters(toks, cur)
      arrow == consume(toks, params.cur, K("Arrow"), "Expected '->' after lambda parameters")
      body == expression(toks, arrow.cur)
  IN IF params.st # "ok" THEN params
     ELSE IF arrow.st # "ok" THEN arrow
     ELSE IF body.st # "ok" THEN body
     ELSE Ok(body.cur, [node |-> "Lambda", params |-> params.val, body |-> body.val])

Binary(left, op, right) == [node |-> "Binary", left |-> left, op |-> op, right |-> right]

logical_or(toks, cur) ==
  LET first == logical_and(toks, cur)
  IN IF first.st # "ok" THEN first ELSE logical_or_loop(toks, first.cur, first.val)

logical_or_loop_body(toks, cur, expr) ==
  LET m == match_token(toks, cur, {K("Or")})
      right == logical_and(toks, m.cur)
  IN IF m.st # "ok" THEN m
     ELSE IF ~m.val THEN Ok(cur, expr)
     ELSE IF right.st # "ok" THEN right
     ELSE logical_or_loop(toks, right.cur, Binary(expr, "Or", right.val))

expression_body(toks, cur) == logical_or(toks, cur)

logical_and_body(toks, cur) ==
  LET first == equality(toks, cur)
  IN IF first.st # "ok" THEN first ELSE logical_and_loop(toks, first.cur, first.val)

logical_and_loop_body(toks, cur, expr) ==
  LET m == match_token(toks, cur, {K("And")})
      right == equality(toks, m.cur)
  IN IF m.st # "ok" THEN m
     ELSE IF ~m.val THEN Ok(cur, expr)
     ELSE IF right.st # "ok" THEN right
     ELSE logical_and_loop(toks, right.cur, Binary(expr, "And", right.val))

\* The BinaryOp / UnaryOp that the match on previous_token_kind() selects.
binary_op(kind) ==
  CASE kind = "EqualEqual" -> "EqualEqual"
    [] kind = "NotEqual" -> "NotEqual"
    [] kind = "Less" -> "Less"
    [] kind = "LessEqual" -> "LessEqual"
    [] kind = "Greater" -> "Greater"
    [] kind = "GreaterEqual" -> "GreaterEqual"
    [] kind = "Plus" -> "Add"
    [] kind = "Minus" -> "Sub"
    [] kind = "Star" -> "Mul"
    [] kind = "Slash" -> "Div"
    [] kind = "Percent" -> "Mod"

unary_op(kind) ==
  CASE kind = "Not" -> "Not"
    [] kind = "Minus" -> "Negate"

equality_body(toks, cur) ==
  LET first == comparison(toks, cur)
  IN IF first.st # "ok" THEN first ELSE equality_loop(toks, first.cur, first.val)

equality_loop_body(toks, cur, expr) ==
  LET m == match_token(toks, cur, {K("EqualEqual"), K("NotEqual")})
      op == previous_token_kind(toks, m.cur)
      right == comparison(toks, m.cur)
  IN IF m.st # "ok" THEN m
     ELSE IF ~m.val THEN Ok(cur, expr)
     ELSE IF op.st # "ok" THEN op
     ELSE IF right.st # "ok" THEN right
     ELSE equality_loop(toks, right.cur, Binary(expr, binary_op(op.val.kind), right.val))

comparison_body(toks, cur) ==
  LET first == addition(toks, cur)
  IN IF first.st # "ok" THEN first ELSE comparison_loop(toks, first.cur, first.val)

comparison_loop_body(toks, cur, expr) ==
  LET m == match_token(toks, cur, {K("Less"), K("LessEqual"), K("Greater"),
                                   K("GreaterEqual")})
      op == previous_token_kind(toks, m.cur)
      right == addition(toks, m.cur)
  IN IF m.st # "ok" THEN m
     ELSE IF ~m.val THEN Ok(cur, expr)
     ELSE IF op.st # "ok" THEN op
     ELSE IF right.st # "ok" THEN right
     ELSE comparison_loop(toks, right.cur, Binary(expr, binary_op(op.val.kind), right.val))

addition_body(toks, cur) ==
  LET first == multiplication(toks, cur)
  IN IF first.st # "ok" THEN first ELSE addition_loop(toks, first.cur, first.val)

\* The loop of addition folding to the right: the right operand is the
\* whole rest of the chain.
addition_loop_folds_right(toks, cur, expr) ==
  LET m == match_token(toks, cur, {K("Plus"), K("Minus")})
      op == previous_token_kind(toks, m.cur)
      right == addition(toks, m.cur)
  IN IF m.st # "ok" THEN m
     ELSE IF ~m.val THEN Ok(cur, expr)
     ELSE IF op.st # "ok" THEN op
     ELSE IF right.st # "ok" THEN right
     ELSE Ok(right.cur, Binary(expr, binary_op(op.val.kind), right.val))

addition_loop_body(toks, cur, expr) ==
  LET m == match_token(toks, cur, {K("Plus"), K("Minus")})
      op == previous_token_kind(toks, m.cur)
      right == multiplication(toks, m.cur)
  IN IF m.st # "ok" THEN m
     ELSE IF ~m.val THEN Ok(cur, expr)
     ELSE IF op.st # "ok" THEN op
     ELSE IF right.st # "ok" THEN right
     ELSE addition_loop(toks, right.cur, Binary(expr, binary_op(op.val.kind), right.val))

multiplication_body(toks, cur) ==
  LET first == unary(toks, cur)
  IN IF first.st # "ok" THEN first ELSE multiplication_loop(toks, first.cur, first.val)

\* The loop of multiplication with addition() as its right operand.
multiplication_loop_takes_addition(toks, cur, expr) ==
  LET m == match_token(toks, cur, {K("Star"), K("Slash"), K("Percent")})
      op == previous_token_kind(toks, m.cur)
      right == addition(toks, m.cur)
  IN IF m.st # "ok" THEN m
     ELSE IF ~m.val THEN Ok(cur, expr)
     ELSE IF op.st # "ok" THEN op
     ELSE IF right.st # "ok" THEN right
     ELSE multiplication_loop(toks, right.cur,
                              Binary(expr, binary_op(op.val.kind), right.val))

multiplication_loop_body(toks, cur, expr) ==
  LET m == match_token(toks, cur, {K("Star"), K("Slash"), K("Percent")})
      op == previous_token_kind(toks, m.cur)
      right == unary(toks, m.cur)
  IN IF m.st # "ok" THEN m
     ELSE IF ~m.val THEN Ok(cur, expr)
     ELSE IF op.st # "ok" THEN op
     ELSE IF right.st # "ok" THEN right
     ELSE multiplication_loop(toks, right.cur,
                              Binary(expr, binary_op(op.val.kind), right.val))

unary_body(toks, cur) ==
  LET m == match_token(toks, cur, {K("Not"), K("Minus")})
      op == previous_token_kind(toks, m.cur)
      expr == unary(toks, m.cur)
  IN IF m.st # "ok" THEN m
     ELSE IF ~m.val THEN primary(toks, cur)
     ELSE IF op.st # "ok" THEN op
     ELSE IF expr.st # "ok" THEN expr
     ELSE Ok(expr.cur, [node |-> "Unary", op |-> unary_op(op.val.kind), expr |-> expr.val])

\* The while loop of the struct literal in primary.
struct_fields_body(toks, cur, fields) ==
  IF OutOfBounds(toks, cur) THEN Panic(cur)
  ELSE IF check(toks, cur, K("RightBrace")) \/ is_at_end(toks, cur) THEN Ok(cur, fields)
  ELSE LET field_name == consume_identifier(toks, cur,
                                            "Expected field name in struct literal")
           pushed == Append(fields, <<field_name.val,
                                      [node |-> "Identifier", name |-> field_name.val]>>)
           comma == match_token(toks, field_name.cur, {K("Comma")})
       IN IF field_name.st # "ok" THEN field_name
          ELSE IF comma.st # "ok" THEN comma
          ELSE IF comma.val THEN struct_fields(toks, comma.cur, pushed)
          ELSE Ok(comma.cur, pushed)

\* `loop { arguments.push(self.expression()?); if !match(Comma) break }`
argument_list_body(toks, cur, acc) ==
  LET arg == expression(toks, cur)
      comma == match_token(toks, arg.cur, {K("Comma")})
  IN IF arg.st # "ok" THEN arg
     ELSE IF comma.st # "ok" THEN comma
     ELSE IF comma.val THEN argument_list(toks, comma.cur, Append(acc, arg.val))
     ELSE Ok(comma.cur, Append(acc, arg.val))

finish_call(toks, cur, callee) ==
  LET arguments == IF OutOfBounds(toks, cur) THEN Panic(cur)
                   ELSE IF ~check(toks, cur, K("RightParen"))
                   THEN argument_list(toks, cur, <<>>)
                   ELSE Ok(cur, <<>>)
      close == consume(toks, arguments.cur, K("RightParen"), "Expected ')' after arguments")
  IN IF arguments.st # "ok" THEN arguments
     ELSE IF close.st # "ok" THEN close
     ELSE Ok(close.cur, [node |-> "Call", callee |-> callee, arguments |-> arguments.val])

finish_property_access(toks, cur, object) ==
  LET name == consume_identifier(toks, cur, "Expected property name after '.'")
  IN IF name.st # "ok" THEN name
     ELSE Ok(name.cur, [node |-> "PropertyAccess", object |-> object, name |-> name.val])

\* The loop that closes primary.
primary_postfix_body(toks, cur, expr) ==
  LET m == match_token(toks, cur, {K("LeftParen"), K("Dot")})
      next == IF toks[cur + 1].kind = "LeftParen"
              THEN finish_call(toks, m.cur, expr)
              ELSE finish_property_access(toks, m.cur, expr)
  IN IF m.st # "ok" THEN m
     ELSE IF ~m.val THEN Ok(cur, expr)
     ELSE IF next.st # "ok" THEN next
     ELSE primary_postfix(toks, next.cur, next.val)

primary_body(toks, cur) ==
  IF OutOfBounds(toks, cur) THEN Panic(cur)
  ELSE IF check(toks, cur, K("Number"))
  THEN LET num == parse_f64(toks[cur + 1].value)
       IN IF ~num.valid
          THEN Err(cur + 1, <<"Invalid number literal: ", toks[cur + 1].value>>)
          ELSE primary_postfix(toks, cur + 1,
                               [node |-> "Literal", type |-> "Number",
                                value |-> [mantissa |-> num.mantissa, scale |-> num.scale]])
  ELSE IF check(toks, cur, K("String"))
  THEN primary_postfix(toks, cur + 1,
                       [node |-> "Literal", type |-> "String",
                        value |-> toks[cur + 1].value])
  ELSE IF check(toks, cur, [kind |-> "Boolean", value |-> TRUE])
  THEN primary_postfix(toks, cur + 1,
                       [node |-> "Literal", type |-> "Boolean", value |-> TRUE])
  ELSE IF check(toks, cur, [kind |-> "Boolean", value |-> FALSE])
  THEN primary_postfix(toks, cur + 1,
                       [node |-> "Literal", type |-> "Boolean", value |-> FALSE])
  ELSE IF check(toks, cur, K("Identifier"))
  THEN LET name == toks[cur + 1].value
           fields == struct_fields(toks, cur + 2, <<>>)
           close == consume(toks, fields.cur, K("RightBrace"),
                            "Expected '}' after struct literal")
       IN IF OutOfBounds(toks, cur + 1) THEN Panic(cur + 1)
          ELSE IF ~check(toks, cur + 1, K("LeftBrace"))
          THEN Ok(cur + 1, [node |-> "Identifier", name |-> name])
          ELSE IF fields.st # "ok" THEN fields
          ELSE IF close.st # "ok" THEN close
          ELSE Ok(close.cur, [node |-> "StructLiteral", name |-> name,
                              fields |-> fields.val])
  ELSE IF check(toks, cur, K("LeftParen"))
  THEN IF lambda_check_call([tokens |-> toks, current |-> cur + 1]).val
       THEN LET lambda ==
                  parse_lambda(toks, lambda_check_call([tokens |-> toks,
                                                        current |-> cur + 1]).current)
            IN IF lambda.st # "ok" THEN lambda
               ELSE primary_postfix(toks, lambda.cur, lambda.val)
       ELSE LET expr ==
                  expression(toks, lambda_check_call([tokens |-> toks,
                                                      current |-> cur + 1]).current)
                close == consume(toks, expr.cur, K("RightParen"),
                                 "Expected ')' after expression")
            IN IF expr.st # "ok" THEN expr
               ELSE IF close.st # "ok" THEN close
               ELSE primary_postfix(toks, close.cur,
                                    [node |-> "Grouping", expr |-> expr.val])
  ELSE IF check(toks, cur, K("LeftBrace"))
  THEN LET body == declaration_list(toks, cur + 1, <<>>)
           close == consume(toks, body.cur, K("RightBrace"), "Expected '}' after block")
       IN IF body.st # "ok" THEN body
          ELSE IF close.st # "ok" THEN close
          ELSE primary_postfix(toks, close.cur, [node |-> "Block", body |-> body.val])
  ELSE Err(cur, <<"Unexpected token: ", toks[cur + 1].kind>>)

parse(rule, toks, cur, a, b) ==
  CASE rule = "declaration" -> declaration_body(toks, cur)
    [] rule = "declaration_list" -> declaration_list_body(toks, cur, a)
    [] rule = "class_members" -> class_members_body(toks, cur, a, b)
    [] rule = "function_declaration" -> function_declaration_body(toks, cur)
    [] rule = "variable_declaration" -> variable_declaration_body(toks, cur)
    [] rule = "parse_type" -> parse_type_body(toks, cur)
    [] rule = "parse_type_list" -> parse_type_list_body(toks, cur, a)
    [] rule = "parameter_list" -> parameter_list_body(toks, cur, a)
    [] rule = "expression" -> expression_body(toks, cur)
    [] rule = "logical_or_loop" -> logical_or_loop_body(toks, cur, a)
    [] rule = "logical_and" -> logical_and_body(toks, cur)
    [] rule = "logical_and_loop" -> logical_and_loop_body(toks, cur, a)
    [] rule = "equality" -> equality_body(toks, cur)
    [] rule = "equality_loop" -> equality_loop_body(toks, cur, a)
    [] rule = "comparison" -> comparison_body(toks, cur)
    [] rule = "comparison_loop" -> comparison_loop_body(toks, cur, a)
    [] rule = "addition" -> addition_body(toks, cur)
    [] rule = "addition_loop" -> addition_loop_body(toks, cur, a)
    [] rule = "multiplication" -> multiplication_body(toks, cur)
    [] rule = "multiplication_loop" -> multiplication_loop_body(toks, cur, a)
    [] rule = "unary" -> unary_body(toks, cur)
    [] rule = "primary" -> primary_body(toks, cur)
    [] rule = "primary_postfix" -> primary_postfix_body(toks, cur, a)
    [] rule = "struct_fields" -> struct_fields_body(toks, cur, a)
    [] rule = "argument_list" -> argument_list_body(toks, cur, a)
    [] rule = "parse_parameters" -> parse_parameters_body(toks, cur)
    [] rule = "parse_lambda" -> parse_lambda_body(toks, cur)

(***************************************************************************)
(* impl From<Token> for ParserToken.                                       *)
(***************************************************************************)
From(token) ==
  LET t == token.token_type
      kw == token.text
  IN CASE t = "Number" -> [kind |-> "Number", value |-> token.text]
       [] t = "String" -> [kind |-> "String", value |-> token.text]
       [] t = "Identifier" -> [kind |-> "Identifier", value |-> token.text]
       [] t = "Boolean" -> [kind |-> "Boolean", value |-> token.text]
       [] t = "Keyword" /\ kw = <<"l", "e", "t">> -> K("Let")
       [] t = "Keyword" /\ kw = <<"v", "a", "r">> -> K("Var")
       [] t = "Keyword" /\ kw = <<"f", "n">> -> K("Fn")
       [] t = "Keyword" /\ kw = <<"c", "l", "a", "s", "s">> -> K("Class")
       [] t = "Keyword" /\ kw = <<"r", "e", "t", "u", "r", "n">> -> K("Return")
       [] t = "Semicolon" -> K("Semicolon")
       [] t = "Colon" -> K("Colon")
       [] t = "Arrow" -> K("Arrow")
       [] t = "LeftParen" -> K("LeftParen")
       [] t = "RightParen" -> K("RightParen")
       [] t = "LeftBrace" -> K("LeftBrace")
       [] t = "RightBrace" -> K("RightBrace")
       [] t = "Plus" -> K("Plus")
       [] t = "Minus" -> K("Minus")
       [] t = "Star" -> K("Star")
       [] t = "Slash" -> K("Slash")
       [] t = "Modulo" -> K("Percent")
       [] t = "EqualEqual" -> K("EqualEqual")
       [] t = "NotEqual" -> K("NotEqual")
       [] t = "Less" -> K("Less")
       [] t = "LessEqual" -> K("LessEqual")
       [] t = "Greater" -> K("Greater")
       [] t = "GreaterEqual" -> K("GreaterEqual")
       [] t = "And" -> K("And")
       [] t = "Or" -> K("Or")
       [] t = "Bang" -> K("Not")
       [] t = "Equal" -> K("Equal")
       [] t = "Dot" -> K("Dot")
       [] t = "Comma" -> K("Comma")
       [] t = "Eof" -> K("Eof")
       [] OTHER -> [kind |-> "Identifier", value |-> <<"u", "n", "k", "n", "o", "w", "n">>]

RECURSIVE MapFrom(_)
MapFrom(toks) ==
  IF toks = <<>> THEN <<>> ELSE <<From(Head(toks))>> \o MapFrom(Tail(toks))

(***************************************************************************)
(* The texts and token buffers the model runs on.                          *)
(***************************************************************************)
RECURSIVE Flatten(_)
Flatten(pieces) ==
  IF pieces = <<>> THEN <<>> ELSE Head(pieces) \o Flatten(Tail(pieces))

SeqsUpTo(S, n) == UNION {[1 .. k -> S] : k \in 0 .. n}

CorePieces ==
  {<<"1">>, <<".">>, <<"a">>, <<"n">>, <<"\"">>, <<"\\">>, <<";">>, <<":">>,
   <<" ">>, <<"\n">>, <<"=">>, <<"!">>, <<"U+00E9">>, <<"U+00A0">>}

OperatorLexemes ==
  {<<"=", "=">>, <<"!", "=">>, <<"<", "=">>, <<">", "=">>, <<"+", "=">>, <<"-", "=">>,
   <<"-", ">">>, <<"&", "&">>, <<"|", "|">>, <<"!">>, <<"<">>, <<">">>, <<"+">>,
   <<"-">>, <<"*">>, <<"/">>, <<"%">>, <<"&">>, <<"|">>, <<"^">>, <<"=">>}

ReservedWords ==
  {<<"l", "e", "t">>, <<"v", "a", "r">>, <<"t", "y", "p", "e">>, <<"i", "f">>,
   <<"e", "l", "s", "e">>, <<"r", "e", "t", "u", "r", "n">>, <<"f", "n">>,
   <<"c", "l", "a", "s", "s">>, <<"r", "e", "c">>, <<"m", "o", "d", "u", "l", "e">>,
   <<"i", "m", "p", "o", "r", "t">>}

Punctuation == {";", ":", "(", ")", "{", "}", ",", "."}

Lexemes ==
  OperatorLexemes \cup ReservedWords \cup {<<c>> : c \in Punctuation}
    \cup {<<"l", "e", "t", "V", "a", "r">>, <<"_", "x", "1">>, <<"1", "2", "3">>,
          <<"1", "2", "3", ".", "4", "5">>, <<"\"", "a", "b", "c">>, <<"@">>,
          <<"!", "=", "!", "!", "!", "=", "=", "!", "!">>,
          <<"1", ".", "5", " ", "2", ".">>,
          <<"\"", "a", "b", "c", "\"">>, <<"\"", "\\", "x", "\"">>,
          <<"\"", "\\", "n", "\\", "t", "\\", "r", "\\", "\\", "\\", "\"", "a", "\"">>,
          <<"\"", "\\", "a", "\\", "n", "\\", "1", "\"">>,
          <<"\"", "\\", "a", "\\">>, <<"\"", "a", "\n", "b", "\"">>}

TailPieces == {<<"=">>, <<"1">>, <<"a">>, <<" ">>, <<";">>, <<">">>, <<".">>, <<"\t">>}

Inputs ==
  {Flatten(ps) : ps \in SeqsUpTo(CorePieces, MaxPieces)}
    \cup {w \o Flatten(ps) : w \in Lexemes, ps \in SeqsUpTo(TailPieces, MaxTail)}

ProgramPieces ==
  {<<"a">>, <<";">>, <<"1">>, <<"l", "e", "t", " ">>, <<"=">>, <<"-">>, <<"\"">>,
   <<"(">>, <<"r", "e", "t", "u", "r", "n", " ">>}

\* "let a: number = 23;" and "var a: number = 23;"
DeclarationText(keyword) ==
  keyword \o <<" ", "a", ":", " ", "n", "u", "m", "b", "e", "r", " ", "=", " ",
                "2", "3", ";">>

DeclarationTexts == {DeclarationText(<<"l", "e", "t">>), DeclarationText(<<"v", "a", "r">>)}

\* The keywords Parser::declaration dispatches on, each as a whole text.
DeclarationKeywords ==
  {[text |-> <<"i", "m", "p", "o", "r", "t">>, kind |-> "Import"],
   [text |-> <<"m", "o", "d", "u", "l", "e">>, kind |-> "Module"],
   [text |-> <<"c", "l", "a", "s", "s">>, kind |-> "Class"],
   [text |-> <<"f", "n">>, kind |-> "Fn"],
   [text |-> <<"r", "e", "t", "u", "r", "n">>, kind |-> "Return"],
   [text |-> <<"l", "e", "t">>, kind |-> "Let"],
   [text |-> <<"v", "a", "r">>, kind |-> "Var"]}

ProgramInputs ==
  {Flatten(ps) : ps \in SeqsUpTo(ProgramPieces, MaxPieces)} \cup DeclarationTexts
    \cup {kw.text : kw \in DeclarationKeywords}

Id(name) == [kind |-> "Identifier", value |-> name]

Num(text) == [kind |-> "Number", value |-> text]

TokenPieces ==
  {<<Id(<<"a">>)>>, <<Num(<<"1">>)>>, <<Num(<<".">>)>>, <<K("Semicolon")>>,
   <<K("LeftParen"), Id(<<"a">>)>>, <<K("RightParen")>>, <<K("Arrow")>>, <<K("Plus")>>,
   <<K("Let")>>, <<K("Equal")>>, <<K("LeftBrace"), Id(<<"a">>)>>, <<K("RightBrace")>>,
   <<K("Class")>>, <<K("Comma")>>, <<K("Dot")>>,
   <<Id(<<"a">>), K("Semicolon")>>,
   <<K("Let"), Id(<<"a">>), K("Equal"), Num(<<"1">>), K("Semicolon")>>}

\* The Eof-terminated buffers: Eof is the last token and only the last.
TokenBuffers ==
  {Flatten(ps) \o <<K("Eof")>> : ps \in SeqsUpTo(TokenPieces, MaxPieces)}

(***************************************************************************)
(* The state machine.                                                      *)
(*   phase = "lex"    Lexer::new(source) is done; next is being called     *)
(*   phase = "parse"  Parser::new(tokens) is done; parse_program runs      *)
(*   phase = "done"   parse_program has returned (or panicked)             *)
(***************************************************************************)
Running == [st |-> "Running", statements |-> <<>>, message |-> <<>>]

\* Lexer::new(source), as lex_all of the tests and main do.
Init ==
  /\ source \in Inputs
  /\ input = Lexer_new(source).input
  /\ current = Lexer_new(source).current
  /\ collected = <<>>
  /\ returned_none = FALSE
  /\ phase = "lex"
  /\ tokens = <<>>
  /\ parser_current = 0
  /\ declarations = <<>>
  /\ result = Running

\* The arm of the match that the next call of Lexer::next takes.
Arm ==
  next_arm(Lexer_peek(skip_whitespace([input |-> input, current |-> current])))

\* A lexer that ends the sequence after an Error token: next returns None
\* without scanning what is left.
Lexer_next_call_stops_after_error ==
  LET L == [input |-> input, current |-> current]
      r == Lexer_next(L)
      stop == collected # <<>> /\ collected[Len(collected)].token_type = "Error"
  IN /\ phase = "lex"
     /\ input' = IF stop THEN input ELSE r.L.input
     /\ current' = IF stop THEN current ELSE r.L.current
     /\ collected' = IF r.some /\ ~stop THEN Append(collected, r.token) ELSE collected
     /\ returned_none' = (stop \/ ~r.some)
     /\ UNCHANGED <<source, phase, tokens, parser_current, declarations, result>>

\* One call of Lexer::next: the lexer moves on, and the caller keeps the
\* token it returned.
Lexer_next_call ==
  LET L == [input |-> input, current |-> current]
      r == Lexer_next(L)
  IN /\ phase = "lex"
     /\ input' = r.L.input
     /\ current' = r.L.current
     /\ collected' = IF r.some THEN Append(collected, r.token) ELSE collected
     /\ returned_none' = ~r.some
     /\ UNCHANGED <<source, phase, tokens, parser_current, declarations, result>>

next_number ==
  /\ Arm = "number"
  /\ Lexer_next_call

next_identifier ==
  /\ Arm = "identifier"
  /\ Lexer_next_call

next_operator ==
  /\ Arm = "operator"
  /\ Lexer_next_call

next_string ==
  /\ Arm = "string"
  /\ Lexer_next_call

next_semicolon ==
  /\ Arm = "semicolon"
  /\ Lexer_next_call

next_unexpected ==
  /\ Arm = "unexpected"
  /\ Lexer_next_call

next_none ==
  /\ Arm = "None"
  /\ Lexer_next_call

Next ==
  \/ next_number
  \/ next_identifier
  \/ next_operator
  \/ next_string
  \/ next_semicolon
  \/ next_unexpected
  \/ next_none

Spec == Init /\ [][Next]_vars

\* main: lexer.collect() calls next until it returns None; then every token
\* is converted and Parser::new takes the buffer.
main_collect ==
  /\ ~returned_none
  /\ Lexer_next_call

main_parser_new ==
  /\ phase = "lex"
  /\ returned_none
  /\ tokens' = MapFrom(collected)
  /\ parser_current' = 0
  /\ phase' = "parse"
  /\ UNCHANGED <<source, input, current, collected, returned_none, declarations, result>>

\* A parse_program that hands back the statements parsed so far with the error.
parse_program_failure_keeps_statements(d, decls) ==
  [st |-> IF d.st = "err" THEN "Err" ELSE "Panic", statements |-> decls, message |-> d.msg]

\* What parse_program returns when declaration() returned d with d.st # "ok".
parse_program_failure(d, decls) ==
  [st |-> IF d.st = "err" THEN "Err" ELSE "Panic", statements |-> <<>>, message |-> d.msg]

\* The loop test of parse_program leaves the loop (or reads outside the buffer).
parse_program_end ==
  /\ phase = "parse"
  /\ IF OutOfBounds(tokens, parser_current) THEN TRUE
     ELSE is_at_end(tokens, parser_current)
  /\ result' = IF OutOfBounds(tokens, parser_current)
               THEN [st |-> "Panic", statements |-> <<>>,
                     message |-> Panic(parser_current).msg]
               ELSE [st |-> "Ok", statements |-> declarations, message |-> <<>>]
  /\ phase' = "done"
  /\ UNCHANGED <<lexer_vars, tokens, parser_current, declarations>>

\* One iteration of the loop with a parser that goes back to the first
\* token when declaration() fails.
parse_program_declaration_rewinds ==
  /\ phase = "parse"
  /\ ~OutOfBounds(tokens, parser_current)
  /\ ~is_at_end(tokens, parser_current)
  /\ LET d == declaration(tokens, parser_current)
     IN /\ parser_current' = IF d.st = "ok" THEN d.cur ELSE 0
        /\ IF d.st = "ok"
           THEN /\ declarations' = Append(declarations, d.val)
                /\ UNCHANGED <<result, phase>>
           ELSE /\ declarations' = <<>>
                /\ result' = parse_program_failure(d, declarations)
                /\ phase' = "done"
  /\ UNCHANGED <<lexer_vars, tokens>>

\* One iteration of the loop: declarations.push(self.declaration()?).
parse_program_declaration ==
  /\ phase = "parse"
  /\ ~OutOfBounds(tokens, parser_current)
  /\ ~is_at_end(tokens, parser_current)
  /\ LET d == declaration(tokens, parser_current)
     IN /\ parser_current' = d.cur
        /\ IF d.st = "ok"
           THEN /\ declarations' = Append(declarations, d.val)
                /\ UNCHANGED <<result, phase>>
           ELSE /\ declarations' = <<>>
                /\ result' = parse_program_failure(d, declarations)
                /\ phase' = "done"
  /\ UNCHANGED <<lexer_vars, tokens>>

\* parse_program run to its end from cursor cur with `decls` pushed so far:
\* [st, statements, message, cur].
RECURSIVE parse_program(_, _, _)
parse_program(toks, cur, decls) ==
  IF OutOfBounds(toks, cur)
  THEN [st |-> "Panic", statements |-> <<>>, message |-> Panic(cur).msg, cur |-> cur]
  ELSE IF is_at_end(toks, cur)
  THEN [st |-> "Ok", statements |-> decls, message |-> <<>>, cur |-> cur]
  ELSE LET d == declaration(toks, cur)
           failure == parse_program_failure(d, decls)
       IN IF d.st = "ok" THEN parse_program(toks, d.cur, Append(decls, d.val))
          ELSE [st |-> failure.st, statements |-> failure.statements,
                message |-> failure.message, cur |-> d.cur]

PipelineInit ==
  /\ source \in ProgramInputs
  /\ input = Lexer_new(source).input
  /\ current = Lexer_new(source).current
  /\ collected = <<>>
  /\ returned_none = FALSE
  /\ phase = "lex"
  /\ tokens = <<>>
  /\ parser_current = 0
  /\ declarations = <<>>
  /\ result = Running

PipelineNext ==
  \/ main_collect
  \/ main_parser_new
  \/ parse_program_declaration
  \/ parse_program_end

PipelineSpec == PipelineInit /\ [][PipelineNext]_vars

\* Parser::new(tokens) over an Eof-terminated buffer.
ParserInit ==
  /\ source = <<>>
  /\ input = <<>>
  /\ current = Position(1, 1, 0)
  /\ collected = <<>>
  /\ returned_none = FALSE
  /\ phase = "parse"
  /\ tokens \in TokenBuffers
  /\ parser_current = 0
  /\ declarations = <<>>
  /\ result = Running

ParserNext ==
  \/ parse_program_declaration
  \/ parse_program_end

ParserSpec == ParserInit /\ [][ParserNext]_vars

(***************************************************************************)
(* What the properties below read off a state.                             *)
(***************************************************************************)
\* The byte offset at which character i of `text` starts.
CharStart(text, i) == ByteLen(SubSeq(text, 1, i - 1))

\* The characters of the source that lie in the byte range of `token`.
TokenChars(token) ==
  {i \in 1 .. Len(source) :
     /\ token.span.start.absolute <= CharStart(source, i)
     /\ CharStart(source, i + 1) <= token.span.end.absolute}

\* The byte range of `token` starts and ends where characters start and end.
Aligned(token) ==
  /\ \E i \in 1 .. Len(source) : CharStart(source, i) = token.span.start.absolute
  /\ \E i \in 1 .. Len(source) : CharStart(source, i + 1) = token.span.end.absolute

\* The index of the first character of `token`, and the source text it covers.
TokenFirst(token) ==
  CHOOSE i \in 1 .. Len(source) : CharStart(source, i) = token.span.start.absolute

TokenLast(token) ==
  CHOOSE i \in 1 .. Len(source) : CharStart(source, i + 1) = token.span.end.absolute

TokenText(token) == SubSeq(source, TokenFirst(token), TokenLast(token))

\* The last index of the maximal run of characters of S that starts at i.
RECURSIVE RunEnd(_, _)
RunEnd(i, S) ==
  IF i + 1 <= Len(source) /\ source[i + 1] \in S THEN RunEnd(i + 1, S) ELSE i

HasDiagnostics(token) == token.token_type = "Error" \/ token.errors # <<>>

\* A diagnostic of ErrorKind k: it carries the code, message and label of k.
IsKind(d, k) ==
  /\ d.error_code = ErrorKind_code(k)
  /\ d.message = ErrorKind_message(k)
  /\ d.label = ErrorKind_label(k)

Consumed == Len(source) - Len(input)

(***************************************************************************)
(* C1.  A lexical error never ends the token sequence: after next has      *)
(* returned a token that is Error-typed or carries diagnostics, a further  *)
(* call with a non-whitespace character left returns a token, and next     *)
(* returns None only when every input character has been consumed.         *)
(***************************************************************************)
C1_ErrorNeverEndsSequence ==
  /\ [](returned_none => input = <<>>)
  /\ [][(/\ collected # <<>>
         /\ HasDiagnostics(collected[Len(collected)])
         /\ skip_whitespace([input |-> input, current |-> current]).input # <<>>)
        => (/\ Len(collected') = Len(collected) + 1
            /\ ~returned_none'
            /\ Len(input') < Len(input))]_vars

\* next has returned None after an Error token and a token that follows it.
C1_Witness ==
  /\ returned_none
  /\ Len(collected) >= 2
  /\ HasDiagnostics(collected[1])
  /\ input = <<>>

(***************************************************************************)
(* C2.  Lossless coverage: the byte ranges of the tokens returned so far   *)
(* are non-empty, pairwise disjoint and strictly increasing, they start    *)
(* and end on character boundaries, every consumed character outside all   *)
(* of them is whitespace, no token starts on a whitespace character, and   *)
(* when next returns None the whole input has been consumed.               *)
(***************************************************************************)
C2_LosslessCoverage ==
  /\ \A k \in 1 .. Len(collected) :
       /\ collected[k].span.start.absolute < collected[k].span.end.absolute
       /\ collected[k].span.end.absolute <= current.absolute
       /\ Aligned(collected[k])
       /\ ~is_whitespace(source[TokenFirst(collected[k])])
       /\ k > 1 => collected[k - 1].span.end.absolute <= collected[k].span.start.absolute
  /\ current.absolute = ByteLen(SubSeq(source, 1, Consumed))
  /\ \A i \in 1 .. Consumed :
       \/ is_whitespace(source[i])
       \/ \E k \in 1 .. Len(collected) : i \in TokenChars(collected[k])
  /\ returned_none => Consumed = Len(source)

\* Two tokens with whitespace between them and a character of two bytes,
\* all consumed.
C2_Witness ==
  /\ returned_none
  /\ Len(collected) >= 2
  /\ collected[1].span.end.absolute < collected[2].span.start.absolute
  /\ \E i \in 1 .. Len(source) : len_utf8(source[i]) > 1 /\ ~is_whitespace(source[i])

(***************************************************************************)
(* C3.  End-to-end pipeline: for every source text, the empty text         *)
(* included, lexing, converting every token and calling parse_program      *)
(* finishes with Ok or Err, and the parser never reads the token buffer    *)
(* at an index outside it.                                                 *)
(***************************************************************************)
C3_PipelineFinishesOkOrErr ==
  /\ result.st # "Panic"
  /\ phase = "done" => result.st \in {"Ok", "Err"}

(***************************************************************************)
(* C4.  Parse errors are fatal and singular: when parse_program over an    *)
(* Eof-terminated buffer returns Err, the parse has stopped, no statement  *)
(* comes with the error (those parsed before it included), and the error   *)
(* is raised at the first violation: the tokens after the one the cursor   *)
(* stopped at play no part.  With them cut off, the parse fails with the   *)
(* same message at the same cursor.  (The lookahead of lambda_check reads  *)
(* further, so this last part is stated for the runs that consumed no      *)
(* '('.)                                                                   *)
(***************************************************************************)
Truncated == SubSeq(tokens, 1, parser_current + 1) \o <<K("Eof")>>

NoParenConsumed ==
  \A i \in 1 .. parser_current : tokens[i].kind # "LeftParen"

C4_ParseErrorsFatal ==
  result.st = "Err" =>
    /\ phase = "done"
    /\ result.statements = <<>>
    /\ result.message # <<>>
    /\ declarations = <<>>
    /\ NoParenConsumed =>
         LET again == parse_program(Truncated, 0, <<>>)
         IN /\ again.st = "Err"
            /\ again.cur = parser_current
            /\ again.message = result.message
            /\ again.statements = <<>>

\* An error after a statement that parsed, with tokens left after the
\* violation.
C4_Witness ==
  /\ result.st = "Err"
  /\ parser_current >= 2
  /\ tokens[1].kind = "Identifier"
  /\ tokens[2].kind = "Semicolon"
  /\ NoParenConsumed
  /\ parser_current + 2 < Len(tokens)

(***************************************************************************)
(* C5.  Greedy-then-validate operators: a token that starts with an        *)
(* operator-lead character covers the maximal run of operator characters,  *)
(* and when that run is no operator lexeme the token is one Error token    *)
(* with one InvalidOperator diagnostic.                                    *)
(***************************************************************************)
C5_GreedyOperators ==
  \A k \in 1 .. Len(collected) :
    LET token == collected[k]
        first == TokenFirst(token)
        last == RunEnd(first, OperatorLead)
        run == SubSeq(source, first, last)
    IN source[first] \in OperatorLead =>
         /\ TokenLast(token) = last
         /\ run \notin OperatorLexemes =>
              /\ token.token_type = "Error"
              /\ Len(token.errors) = 1
              /\ IsKind(token.errors[1], [kind |-> "InvalidOperator", arg |-> run])

(***************************************************************************)
(* C6.  Keyword classification: a token that starts with a letter or an    *)
(* underscore covers the maximal run of ASCII letters, digits and          *)
(* underscores, and is Keyword(text) exactly when the text is a reserved   *)
(* word (let, var, type, if, else, return, fn, class, rec, module,         *)
(* import), Identifier(text) otherwise.                                    *)
(***************************************************************************)
C6_KeywordClassification ==
  \A k \in 1 .. Len(collected) :
    LET token == collected[k]
        first == TokenFirst(token)
        last == RunEnd(first, AsciiDigits \cup AsciiLower \cup AsciiUpper \cup {"_"})
        text == SubSeq(source, first, last)
    IN source[first] \in AsciiLower \cup AsciiUpper \cup {"_"} =>
         /\ TokenLast(token) = last
         /\ token.text = text
         /\ token.token_type = IF text \in ReservedWords THEN "Keyword" ELSE "Identifier"

(***************************************************************************)
(* C7.  Single-character punctuation: a token that starts with one of      *)
(* ; : ( ) { } , . has the punctuation type of that character, covers      *)
(* that one character, and carries no diagnostics.                         *)
(***************************************************************************)
PunctuationType(c) ==
  CASE c = ";" -> "Semicolon"
    [] c = ":" -> "Colon"
    [] c = "(" -> "LeftParen"
    [] c = ")" -> "RightParen"
    [] c = "{" -> "LeftBrace"
    [] c = "}" -> "RightBrace"
    [] c = "," -> "Comma"
    [] c = "." -> "Dot"

C7_SingleCharPunctuation ==
  \A k \in 1 .. Len(collected) :
    LET token == collected[k]
        first == TokenFirst(token)
    IN source[first] \in Punctuation =>
         /\ token.token_type = PunctuationType(source[first])
         /\ TokenLast(token) = first
         /\ token.errors = <<>>

(***************************************************************************)
(* C8.  Valid operator table: each operator lexeme, lexed on its own,      *)
(* yields as its first (and only) token the matching operator type,        *)
(* spanning the whole lexeme, with no diagnostics.                         *)
(***************************************************************************)
ExpectedOperator(lexeme) ==
  CASE lexeme = <<"=", "=">> -> "EqualEqual"
    [] lexeme = <<"!", "=">> -> "NotEqual"
    [] lexeme = <<"<", "=">> -> "LessEqual"
    [] lexeme = <<">", "=">> -> "GreaterEqual"
    [] lexeme = <<"+", "=">> -> "PlusEqual"
    [] lexeme = <<"-", "=">> -> "MinusEqual"
    [] lexeme = <<"-", ">">> -> "Arrow"
    [] lexeme = <<"&", "&">> -> "And"
    [] lexeme = <<"|", "|">> -> "Or"
    [] lexeme = <<"!">> -> "Bang"
    [] lexeme = <<"<">> -> "Less"
    [] lexeme = <<">">> -> "Greater"
    [] lexeme = <<"+">> -> "Plus"
    [] lexeme = <<"-">> -> "Minus"
    [] lexeme = <<"*">> -> "Star"
    [] lexeme = <<"/">> -> "Slash"
    [] lexeme = <<"%">> -> "Modulo"
    [] lexeme = <<"&">> -> "BitwiseAnd"
    [] lexeme = <<"|">> -> "BitwiseOr"
    [] lexeme = <<"^">> -> "BitwiseXor"
    [] lexeme = <<"=">> -> "Equal"

C8_ValidOperatorTable ==
  (source \in OperatorLexemes /\ (collected # <<>> \/ returned_none)) =>
    /\ Len(collected) = 1
    /\ collected[1].token_type = ExpectedOperator(source)
    /\ collected[1].span.start.absolute = 0
    /\ collected[1].span.end.absolute = Len(source)
    /\ collected[1].errors = <<>>

\* "->" lexed on its own, to the end.
C8_Witness ==
  /\ source = <<"-", ">">>
  /\ returned_none
  /\ Len(collected) = 1
  /\ collected[1].token_type = "Arrow"

(***************************************************************************)
(* C9.  Trailing decimal point: a token that starts with a digit whose     *)
(* digit run is followed by '.' is, when no digit follows the '.', one     *)
(* Error token over the digits and the dot with an InvalidDecimal          *)
(* diagnostic, and, when a digit follows, a Number with the whole lexeme   *)
(* and no diagnostics.                                                     *)
(***************************************************************************)
C9_TrailingDecimalPoint ==
  \A k \in 1 .. Len(collected) :
    LET token == collected[k]
        first == TokenFirst(token)
        digits == RunEnd(first, AsciiDigits)
        dot == digits + 1
    IN (source[first] \in AsciiDigits /\ dot <= Len(source) /\ source[dot] = ".") =>
         IF dot + 1 <= Len(source) /\ source[dot + 1] \in AsciiDigits
         THEN /\ token.token_type = "Number"
              /\ TokenLast(token) = RunEnd(dot + 1, AsciiDigits)
              /\ token.text = SubSeq(source, first, RunEnd(dot + 1, AsciiDigits))
              /\ token.errors = <<>>
         ELSE /\ token.token_type = "Error"
              /\ TokenLast(token) = dot
              /\ \E j \in 1 .. Len(token.errors) :
                   IsKind(token.errors[j], [kind |-> "InvalidDecimal"])

\* A Number with a fraction and an Error for a trailing dot, in one text.
C9_Witness ==
  /\ Len(collected) >= 2
  /\ collected[1].token_type = "Number"
  /\ "." \in {collected[1].text[i] : i \in 1 .. Len(collected[1].text)}
  /\ collected[2].token_type = "Error"
  /\ source[TokenFirst(collected[2])] \in AsciiDigits
  /\ source[TokenLast(collected[2])] = "."

(***************************************************************************)
(* C10.  Unterminated string: when a '"' opens a string and the input ends *)
(* before an unescaped closing '"', and not right after a backslash, the   *)
(* token is the last one, it is Error-typed, its errors end with the one   *)
(* UnterminatedString diagnostic they hold, and its span runs from the     *)
(* opening quote to the input length.                                      *)
(***************************************************************************)
\* How the string whose first character after the quote is i ends.
RECURSIVE StringScan(_)
StringScan(i) ==
  IF i > Len(source) THEN "eof"
  ELSE IF source[i] = "\"" THEN "closed"
  ELSE IF source[i] = "\\"
  THEN IF i + 1 > Len(source) THEN "dangling" ELSE StringScan(i + 2)
  ELSE StringScan(i + 1)

C10_UnterminatedString ==
  \A k \in 1 .. Len(collected) :
    LET token == collected[k]
        first == TokenFirst(token)
        unterminated == {j \in 1 .. Len(token.errors) :
                           IsKind(token.errors[j], [kind |-> "UnterminatedString"])}
    IN (source[first] = "\"" /\ StringScan(first + 1) = "eof") =>
         /\ k = Len(collected)
         /\ input = <<>>
         /\ token.token_type = "Error"
         /\ unterminated = {Len(token.errors)}
         /\ token.span.end.absolute = ByteLen(source)

\* An unterminated string that also holds a bad escape.
C10_Witness ==
  /\ collected # <<>>
  /\ LET token == collected[Len(collected)]
     IN /\ source[TokenFirst(token)] = "\""
        /\ StringScan(TokenFirst(token) + 1) = "eof"
        /\ Len(token.errors) >= 2

(***************************************************************************)
(* C11.  Dangling backslash: when a '"' opens a string and the last input   *)
(* character is a backslash that starts an escape, the string is the last  *)
(* token, all input is consumed, and its errors are exactly two: an        *)
(* UnterminatedEscapeSequence diagnostic (E006), then an                   *)
(* UnterminatedString diagnostic.                                          *)
(***************************************************************************)
\* The code, message and label of ErrorKind::UnterminatedEscapeSequence as
\* the diagnostic table documents them.
IsUnterminatedEscapeSequence(d) ==
  /\ d.error_code = "E006"
  /\ d.message = <<"Unterminated escape sequence">>
  /\ d.label = "Unterminated escape sequence"

C11_DanglingBackslash ==
  \A k \in 1 .. Len(collected) :
    LET token == collected[k]
        first == TokenFirst(token)
    IN (source[first] = "\"" /\ StringScan(first + 1) = "dangling") =>
         /\ k = Len(collected)
         /\ input = <<>>
         /\ Len(token.errors) = 2
         /\ IsUnterminatedEscapeSequence(token.errors[1])
         /\ IsKind(token.errors[2], [kind |-> "UnterminatedString"])

(***************************************************************************)
(* C12.  Error-tolerant escapes: in a string, a backslash followed by a    *)
(* character c other than n, t, r, backslash, '"' adds one InvalidEscape(c) *)
(* diagnostic and c itself to the decoded text, and scanning goes on: the  *)
(* errors of the token start with one InvalidEscape per bad escape, in     *)
(* source order, and hold no other InvalidEscape; a string that is closed  *)
(* is String(decoded text) with exactly those diagnostics, the recognized  *)
(* escapes decoded to newline, tab, carriage return, backslash and quote.  *)
(***************************************************************************)
RecognizedEscapes == {"n", "t", "r", "\\", "\""}

Unescaped(c) ==
  CASE c = "n" -> "\n"
    [] c = "t" -> "\t"
    [] c = "r" -> "\r"
    [] c = "\\" -> "\\"
    [] c = "\"" -> "\""

\* The string whose first character after the quote is i: how it ends, its
\* decoded text, and the characters of its bad escapes.
RECURSIVE ScanString(_, _, _)
ScanString(i, text, bad) ==
  IF i > Len(source) THEN [end |-> "eof", text |-> text, bad |-> bad]
  ELSE IF source[i] = "\"" THEN [end |-> "closed", text |-> text, bad |-> bad]
  ELSE IF source[i] = "\\"
  THEN IF i + 1 > Len(source) THEN [end |-> "dangling", text |-> text, bad |-> bad]
       ELSE IF source[i + 1] \in RecognizedEscapes
       THEN ScanString(i + 2, Append(text, Unescaped(source[i + 1])), bad)
       ELSE ScanString(i + 2, Append(text, source[i + 1]), Append(bad, source[i + 1]))
  ELSE ScanString(i + 1, Append(text, source[i]), bad)

IsInvalidEscape(d) ==
  \E i \in 1 .. Len(source) : IsKind(d, [kind |-> "InvalidEscape", arg |-> source[i]])

C12_ErrorTolerantEscapes ==
  \A k \in 1 .. Len(collected) :
    LET token == collected[k]
        first == TokenFirst(token)
        s == ScanString(first + 1, <<>>, <<>>)
    IN source[first] = "\"" =>
         /\ Len(token.errors) >= Len(s.bad)
         /\ \A j \in 1 .. Len(token.errors) :
              IF j <= Len(s.bad)
              THEN IsKind(token.errors[j], [kind |-> "InvalidEscape", arg |-> s.bad[j]])
              ELSE ~IsInvalidEscape(token.errors[j])
         /\ s.end = "closed" =>
              /\ token.token_type = "String"
              /\ token.text = s.text
              /\ Len(token.errors) = Len(s.bad)

\* A closed string with two bad escapes around a recognized one.
C12_Witness ==
  \E k \in 1 .. Len(collected) :
    /\ collected[k].token_type = "String"
    /\ Len(collected[k].errors) = 2
    /\ collected[k].errors[1] # collected[k].errors[2]
    /\ "\n" \in {collected[k].text[i] : i \in 1 .. Len(collected[k].text)}

(***************************************************************************)
(* C13.  Diagnostic code table: the kinds UnexpectedCharacter,             *)
(* InvalidDecimal, InvalidOperator, InvalidEscape, UnterminatedString and  *)
(* UnterminatedEscapeSequence have the distinct codes E000, E001, E002,    *)
(* E003, E004 and E006, ErrorKind::code gives those codes, and every       *)
(* diagnostic attached to a token returned by the lexer carries the code,  *)
(* the message and the label of one kind of the table.                     *)
(***************************************************************************)
DocumentedKinds == {"UnexpectedCharacter", "InvalidDecimal", "InvalidOperator",
                    "InvalidEscape", "UnterminatedString",
                    "UnterminatedEscapeSequence"}

DocumentedCode(kind) ==
  CASE kind = "UnexpectedCharacter" -> "E000"
    [] kind = "InvalidDecimal" -> "E001"
    [] kind = "InvalidOperator" -> "E002"
    [] kind = "InvalidEscape" -> "E003"
    [] kind = "UnterminatedString" -> "E004"
    [] kind = "UnterminatedEscapeSequence" -> "E006"

\* d carries the triple of one documented kind; the kinds with a payload
\* take it from the characters of the token the diagnostic is attached to.
IsDocumented(d, token) ==
  \/ /\ IsUnterminatedEscapeSequence(d)
     /\ d.error_code = DocumentedCode("UnterminatedEscapeSequence")
  \/ \E kind \in DocumentedKinds \cap ErrorKinds :
       \E arg \in {source[i] : i \in TokenFirst(token) .. TokenLast(token)} :
         /\ IsKind(d, [kind |-> kind, arg |-> arg])
         /\ d.error_code = DocumentedCode(kind)

C13_DiagnosticCodeTable ==
  /\ \A k1, k2 \in DocumentedKinds :
       k1 # k2 => DocumentedCode(k1) # DocumentedCode(k2)
  /\ \A kind \in DocumentedKinds \cap ErrorKinds :
       ErrorKind_code([kind |-> kind, arg |-> "a"]) = DocumentedCode(kind)
  /\ \A k \in 1 .. Len(collected) :
       \A e \in 1 .. Len(collected[k].errors) :
         IsDocumented(collected[k].errors[e], collected[k])

(***************************************************************************)
(* C14.  Position tracking: after any number of advance calls the cursor   *)
(* has line = 1 + the newlines consumed, column = 1 + the characters       *)
(* consumed since the last newline, absolute = the UTF-8 byte length of    *)
(* the consumed characters, and absolute never decreases from one advance  *)
(* to the next; the cursor of the running lexer is the one of the prefix   *)
(* it has consumed.                                                        *)
(***************************************************************************)
\* The lexer after n calls of advance on a fresh lexer over text.
RECURSIVE advance_times(_, _)
advance_times(text, n) ==
  IF n = 0 THEN Lexer_new(text) ELSE Lexer_advance(advance_times(text, n - 1)).L

Newlines(text) == Cardinality({i \in 1 .. Len(text) : text[i] = "\n"})

\* The characters of text after its last newline.
SinceNewline(text) ==
  Len(text) - (IF Newlines(text) = 0 THEN 0
               ELSE CHOOSE i \in 1 .. Len(text) :
                      /\ text[i] = "\n"
                      /\ \A j \in i + 1 .. Len(text) : text[j] # "\n")

PositionAfter(text) ==
  Position(1 + Newlines(text), 1 + SinceNewline(text), ByteLen(text))

C14_PositionTracking ==
  /\ \A n \in 0 .. Len(source) :
       /\ advance_times(source, n).current = PositionAfter(SubSeq(source, 1, n))
       /\ n > 0 => advance_times(source, n).current.absolute
                     >= advance_times(source, n - 1).current.absolute
  /\ current = PositionAfter(SubSeq(source, 1, Consumed))

\* The lexer has returned a token that lies after a newline and after a
\* character of two bytes.
C14_Witness ==
  /\ collected # <<>>
  /\ current.line > 1
  /\ current.column > 1
  /\ current.absolute > Consumed

(***************************************************************************)
(* C15.  Token extent: every token the lexer returns has                   *)
(* span.start.absolute < span.end.absolute; span.start is the cursor       *)
(* before its first character and span.end the cursor after its last       *)
(* consumed character (the cursor of the lexer when the token is           *)
(* returned), so the byte length of the consumed text is end.absolute -    *)
(* start.absolute; "123" spans 0..3 and "\"abc\"" spans 0..5.              *)
(***************************************************************************)
C15_TokenExtent ==
  /\ \A k \in 1 .. Len(collected) :
       LET token == collected[k]
       IN /\ token.span.start.absolute < token.span.end.absolute
          /\ Aligned(token)
          /\ token.span.start =
               PositionAfter(SubSeq(source, 1, TokenFirst(token) - 1))
          /\ token.span.end = PositionAfter(SubSeq(source, 1, TokenLast(token)))
          /\ ByteLen(TokenText(token))
               = token.span.end.absolute - token.span.start.absolute
          /\ (k = Len(collected) /\ ~returned_none) => token.span.end = current
  /\ (source \in {<<"1", "2", "3">>, <<"\"", "a", "b", "c", "\"">>}
        /\ collected # <<>>) =>
       /\ collected[1].span.start.absolute = 0
       /\ collected[1].span.end.absolute = Len(source)

\* A string token that starts on one line and ends on the next has been
\* returned, followed by a second token.
C15_Witness ==
  /\ Len(collected) >= 2
  /\ collected[1].token_type = "String"
  /\ collected[1].span.end.line > collected[1].span.start.line
  /\ collected[2].span.start.line = 2

(***************************************************************************)
(* Expression statements handed to the parser: chains of binary operators  *)
(* with prefix operators, parenthesised forms, and primaries followed by a *)
(* call and a property access.                                             *)
(***************************************************************************)
Ks(kinds) == [i \in 1 .. Len(kinds) |-> K(kinds[i])]

IdA == Id(<<"a">>)

IdB == Id(<<"b">>)

IdC == Id(<<"c">>)

ExprOperators ==
  {"Or", "And", "EqualEqual", "NotEqual", "Less", "LessEqual", "Greater",
   "GreaterEqual", "Plus", "Minus", "Star", "Slash", "Percent"}

ExprPrefixes == {<<>>, <<"Not">>, <<"Minus">>, <<"Not", "Minus">>, <<"Minus", "Not">>}

ShortPrefixes == {<<>>, <<"Not">>, <<"Minus">>}

EndOfStatement == <<K("Semicolon"), K("Eof")>>

\* p1 a op1 p2 b op2 c ;
Chain(p1, op1, p2, op2) ==
  Ks(p1) \o <<IdA, K(op1)>> \o Ks(p2) \o <<IdB, K(op2), IdC>> \o EndOfStatement

ChainBuffers ==
  {Chain(p1, op1, p2, op2) : p1 \in ExprPrefixes, op1 \in ExprOperators,
                             p2 \in ShortPrefixes, op2 \in ExprOperators}

UnaryBuffers == {Ks(p) \o <<IdA>> \o EndOfStatement : p \in ExprPrefixes}

DanglingBuffers == {<<IdA, K(op)>> \o EndOfStatement : op \in ExprOperators}

ParenBuffers ==
  {Ks(<<"LeftParen">>) \o <<IdA>> \o Ks(<<"RightParen">>) \o EndOfStatement,
   Ks(<<"LeftParen">>) \o <<IdA>> \o Ks(<<"RightParen", "Arrow">>) \o <<IdA>>
     \o EndOfStatement,
   Ks(<<"LeftParen">>) \o <<IdA, K("Comma"), IdB>> \o Ks(<<"RightParen", "Arrow">>)
     \o <<IdA>> \o EndOfStatement,
   Ks(<<"LeftParen", "RightParen", "Arrow">>) \o <<IdA>> \o EndOfStatement,
   Ks(<<"LeftParen", "LeftParen">>) \o <<IdA>> \o Ks(<<"RightParen", "RightParen">>)
     \o EndOfStatement,
   Ks(<<"LeftParen", "LeftParen">>) \o <<IdA>>
     \o Ks(<<"RightParen", "RightParen", "Arrow">>) \o <<IdA>> \o EndOfStatement,
   Ks(<<"LeftParen", "LeftParen">>) \o <<IdA>> \o Ks(<<"RightParen", "Arrow">>)
     \o <<IdA>> \o Ks(<<"RightParen">>) \o EndOfStatement,
   Ks(<<"LeftParen">>) \o <<IdA>> \o EndOfStatement,
   Ks(<<"LeftParen">>) \o <<IdA, K("Arrow"), IdA>> \o EndOfStatement,
   Ks(<<"LeftParen">>) \o <<IdA>> \o Ks(<<"RightParen", "Plus">>) \o <<IdB>>
     \o EndOfStatement,
   Ks(<<"LeftParen">>) \o <<IdA>> \o Ks(<<"RightParen", "Arrow">>)
     \o <<IdA, K("Plus"), IdB>> \o EndOfStatement,
   Ks(<<"LeftParen">>) \o <<IdA>> \o Ks(<<"RightParen", "LeftParen">>) \o <<IdB>>
     \o Ks(<<"RightParen">>) \o EndOfStatement,
   Ks(<<"LeftParen">>) \o <<IdA, K("Plus"), IdB>> \o Ks(<<"RightParen", "Arrow">>)
     \o <<IdA>> \o EndOfStatement,
   Ks(<<"LeftParen">>) \o <<IdA>> \o Ks(<<"RightParen", "RightParen", "Arrow">>)
     \o <<IdA>> \o EndOfStatement,
   Ks(<<"LeftParen">>) \o <<Num(<<"1">>)>> \o Ks(<<"RightParen", "Arrow">>) \o <<IdA>>
     \o EndOfStatement}

\* ( b ) . c ;
CallThenProperty ==
  Ks(<<"LeftParen">>) \o <<IdB>> \o Ks(<<"RightParen", "Dot">>) \o <<IdC>>
    \o EndOfStatement

\* The primary forms as tokens: literal, identifier, struct literal, grouping,
\* block.
PrimaryForms ==
  {<<Num(<<"1">>)>>, <<IdA>>, <<IdA>> \o Ks(<<"LeftBrace", "RightBrace">>),
   Ks(<<"LeftParen">>) \o <<IdA>> \o Ks(<<"RightParen">>),
   Ks(<<"LeftBrace", "RightBrace">>)}

\* ( f , x ) -> f ( x ) ;
LambdaCallBuffer ==
  Ks(<<"LeftParen">>) \o <<Id(<<"f">>), K("Comma"), Id(<<"x">>)>>
    \o Ks(<<"RightParen", "Arrow">>) \o <<Id(<<"f">>), K("LeftParen"), Id(<<"x">>)>>
    \o Ks(<<"RightParen">>) \o EndOfStatement

PostfixBuffers == {form \o CallThenProperty : form \in PrimaryForms} \cup {LambdaCallBuffer}

ExpressionBuffers ==
  ChainBuffers \cup UnaryBuffers \cup DanglingBuffers \cup ParenBuffers
    \cup PostfixBuffers

\* Parser::new(tokens) over an expression statement.
ExpressionInit ==
  /\ source = <<>>
  /\ input = <<>>
  /\ current = Position(1, 1, 0)
  /\ collected = <<>>
  /\ returned_none = FALSE
  /\ phase = "parse"
  /\ tokens \in ExpressionBuffers
  /\ parser_current = 0
  /\ declarations = <<>>
  /\ result = Running

ExpressionSpec == ExpressionInit /\ [][ParserNext]_vars

\* The first declaration() of parse_program has returned.
FirstParsed == parser_current > 0 \/ phase = "done"

IdNode(name) == [node |-> "Identifier", name |-> name]

ExprStmt(expr) == [node |-> "Expression", expr |-> expr]

\* The binding strength of a binary operator token, weakest first.
Level(op) ==
  CASE op = "Or" -> 1
    [] op = "And" -> 2
    [] op \in {"EqualEqual", "NotEqual"} -> 3
    [] op \in {"Less", "LessEqual", "Greater", "GreaterEqual"} -> 4
    [] op \in {"Plus", "Minus"} -> 5
    [] op \in {"Star", "Slash", "Percent"} -> 6

OperatorOf(op) == IF op \in {"Or", "And"} THEN op ELSE binary_op(op)

\* The prefix operators p applied to e, the last one first.
RECURSIVE Prefixed(_, _)
Prefixed(p, e) ==
  IF p = <<>> THEN e
  ELSE [node |-> "Unary", op |-> IF Head(p) = "Not" THEN "Not" ELSE "Negate",
        expr |-> Prefixed(Tail(p), e)]

\* The tree of p1 a op1 p2 b op2 c: b goes to the stronger operator, and to
\* the left one when both are of one level.
ChainTree(p1, op1, p2, op2) ==
  LET a == Prefixed(p1, IdNode(<<"a">>))
      b == Prefixed(p2, IdNode(<<"b">>))
      c == IdNode(<<"c">>)
  IN IF Level(op2) > Level(op1)
     THEN Binary(a, OperatorOf(op1), Binary(b, OperatorOf(op2), c))
     ELSE Binary(Binary(a, OperatorOf(op1), b), OperatorOf(op2), c)

(***************************************************************************)
(* C16.  Operator precedence: for p1 a op1 p2 b op2 c ; with op1 and op2   *)
(* of different levels (or < and < equality < comparison < additive <      *)
(* multiplicative) the statement parses, b is a child of the Binary node   *)
(* of the stronger operator, and the prefix operators p1, p2 (! and -)     *)
(* wrap a and b inside the Binary nodes.                                   *)
(***************************************************************************)
C16_OperatorPrecedence ==
  \A p1 \in ExprPrefixes, p2 \in ShortPrefixes :
    \A op1, op2 \in ExprOperators :
      (/\ Len(tokens) = Len(p1) + Len(p2) + 7
       /\ tokens = Chain(p1, op1, p2, op2)
       /\ Level(op1) # Level(op2)
       /\ FirstParsed) =>
        declarations = <<ExprStmt(ChainTree(p1, op1, p2, op2))>>

\* - a + ! b * c ; has been parsed.
C16_Witness ==
  /\ FirstParsed
  /\ tokens = Chain(<<"Minus">>, "Plus", <<"Not">>, "Star")
  /\ declarations # <<>>

(***************************************************************************)
(* C17.  Associativity: for p1 a op1 p2 b op2 c ; with op1 and op2 of one  *)
(* level the statement parses to Binary(Binary(a, op1, b), op2, c), the    *)
(* operands in source order; stacked prefix operators nest to the right,   *)
(* ! - a ; is Unary(Not, Unary(Negate, a)).                                *)
(***************************************************************************)
C17_Associativity ==
  /\ \A p1 \in ExprPrefixes, p2 \in ShortPrefixes :
       \A op1, op2 \in ExprOperators :
         (/\ Len(tokens) = Len(p1) + Len(p2) + 7
          /\ tokens = Chain(p1, op1, p2, op2)
          /\ Level(op1) = Level(op2)
          /\ FirstParsed) =>
           declarations =
             <<ExprStmt(Binary(Binary(Prefixed(p1, IdNode(<<"a">>)), OperatorOf(op1),
                                      Prefixed(p2, IdNode(<<"b">>))),
                               OperatorOf(op2), IdNode(<<"c">>)))>>
  /\ \A p \in ExprPrefixes :
       (tokens = Ks(p) \o <<IdA>> \o EndOfStatement /\ FirstParsed) =>
         declarations = <<ExprStmt(Prefixed(p, IdNode(<<"a">>)))>>
  /\ (tokens = Ks(<<"Not", "Minus">>) \o <<IdA>> \o EndOfStatement /\ FirstParsed) =>
       declarations[1].expr =
         [node |-> "Unary", op |-> "Not",
          expr |-> [node |-> "Unary", op |-> "Negate", expr |-> IdNode(<<"a">>)]]

\* a - b + c ; has been parsed to a statement.
C17_Witness ==
  /\ FirstParsed
  /\ tokens = Chain(<<>>, "Minus", <<>>, "Plus")
  /\ declarations # <<>>
  /\ declarations[1].expr.left.node = "Binary"

(***************************************************************************)
(* C18.  Lambda versus grouping: after a '(' the parser looks for the ')'  *)
(* that closes it by counting nested parentheses; lambda_check holds       *)
(* exactly when that ')' exists and the token after it is '->'.  A         *)
(* statement that starts with '(' then has a Lambda at the head of its     *)
(* expression when lambda_check holds and a Grouping when not, and it      *)
(* fails on the parameter list, never as a grouping, when lambda_check     *)
(* holds over something that is not a parameter list.                      *)
(***************************************************************************)
\* '(' minus ')' among toks[from .. j] (1-based).
Balance(toks, from, j) ==
  Cardinality({i \in from .. j : toks[i].kind = "LeftParen"})
    - Cardinality({i \in from .. j : toks[i].kind = "RightParen"})

\* The ')' that closes a '(' whose inside starts at toks[from]; 0 if none.
ClosingParen(toks, from) ==
  LET closing == {j \in from .. Len(toks) : Balance(toks, from, j) = -1}
  IN IF closing = {} THEN 0
     ELSE CHOOSE j \in closing : \A i \in closing : j <= i

ClosedBeforeArrow(toks, from) ==
  LET j == ClosingParen(toks, from)
  IN /\ j # 0
     /\ j + 1 <= Len(toks)
     /\ toks[j + 1].kind = "Arrow"

\* The node an expression starts with: the leftmost operand, callee, object.
RECURSIVE HeadNode(_)
HeadNode(e) ==
  IF e.node = "Binary" THEN HeadNode(e.left)
  ELSE IF e.node = "Call" THEN HeadNode(e.callee)
  ELSE IF e.node = "PropertyAccess" THEN HeadNode(e.object)
  ELSE e

LambdaMessages ==
  {<<"Expected parameter name">>, <<"Expected ')' after parameters">>,
   <<"Expected '->' after lambda parameters">>}

C18_LambdaVersusGrouping ==
  /\ \A i \in 1 .. Len(tokens) - 1 :
       tokens[i].kind = "LeftParen" =>
         (lambda_check(tokens, i) <=> ClosedBeforeArrow(tokens, i + 1))
  /\ (tokens[1].kind = "LeftParen" /\ FirstParsed) =>
       /\ declarations # <<>> =>
            HeadNode(declarations[1].expr).node =
              IF ClosedBeforeArrow(tokens, 2) THEN "Lambda" ELSE "Grouping"
       /\ (declarations = <<>> /\ ~ClosedBeforeArrow(tokens, 2)) =>
            result.message \notin LambdaMessages
       /\ (ClosedBeforeArrow(tokens, 2)
             /\ tokens[2].kind \notin {"Identifier", "RightParen"}) =>
            /\ declarations = <<>>
            /\ result.message = <<"Expected parameter name">>

\* ( ( a ) -> a ) ; has been parsed: a Grouping that holds a Lambda.
C18_Witness ==
  /\ FirstParsed
  /\ tokens = Ks(<<"LeftParen", "LeftParen">>) \o <<IdA>> \o Ks(<<"RightParen", "Arrow">>)
                \o <<IdA>> \o Ks(<<"RightParen">>) \o EndOfStatement
  /\ declarations # <<>>
  /\ declarations[1].expr.node = "Grouping"
  /\ declarations[1].expr.expr.node = "Lambda"

(***************************************************************************)
(* C19.  Postfix chaining: a literal, an identifier, a struct literal, a   *)
(* grouping or a block followed by ( b ) . c ; parses to                   *)
(* PropertyAccess(Call(primary, [b]), c), and ( f , x ) -> f ( x ) ; to a  *)
(* Lambda with parameters f, x and body Call(Identifier f, [Identifier     *)
(* x]).                                                                    *)
(***************************************************************************)
\* The tree of each primary form of PrimaryForms.
PrimaryTree(form) ==
  IF form[1].kind = "Number"
  THEN [node |-> "Literal", type |-> "Number",
        value |-> [mantissa |-> parse_f64(form[1].value).mantissa,
                   scale |-> parse_f64(form[1].value).scale]]
  ELSE IF form = <<IdA>> THEN IdNode(<<"a">>)
  ELSE IF form[1].kind = "Identifier"
  THEN [node |-> "StructLiteral", name |-> <<"a">>, fields |-> <<>>]
  ELSE IF form[1].kind = "LeftParen"
  THEN [node |-> "Grouping", expr |-> IdNode(<<"a">>)]
  ELSE [node |-> "Block", body |-> <<>>]

Call(callee, arguments) ==
  [node |-> "Call", callee |-> callee, arguments |-> arguments]

C19_PostfixChaining ==
  /\ \A form \in PrimaryForms :
       (tokens = form \o CallThenProperty /\ FirstParsed) =>
         declarations =
           <<ExprStmt([node |-> "PropertyAccess",
                       object |-> Call(PrimaryTree(form), <<IdNode(<<"b">>)>>),
                       name |-> <<"c">>])>>
  /\ (tokens = LambdaCallBuffer /\ FirstParsed) =>
       declarations =
         <<ExprStmt([node |-> "Lambda",
                     params |-> <<[name |-> <<"f">>, type_annotation |-> None],
                                  [name |-> <<"x">>, type_annotation |-> None]>>,
                     body |-> Call(IdNode(<<"f">>), <<IdNode(<<"x">>)>>)])>>

(***************************************************************************)
(* C20.  Variable declaration from source text: lexing, converting and     *)
(* parsing "let a: number = 23;" or "var a: number = 23;" ends Ok with     *)
(* exactly one statement, a VariableDecl that is mutable for var and not   *)
(* for let, with name "a", type annotation Simple("number") and the number *)
(* literal 23 as initializer.                                              *)
(***************************************************************************)
C20_VariableDeclaration ==
  \A keyword \in {<<"l", "e", "t">>, <<"v", "a", "r">>} :
    (source = DeclarationText(keyword) /\ phase = "done") =>
      /\ result.st = "Ok"
      /\ result.statements =
           <<[node |-> "VariableDecl", is_mutable |-> keyword = <<"v", "a", "r">>,
              name |-> <<"a">>,
              type_annotation |-> [node |-> "Simple",
                                   name |-> <<"n", "u", "m", "b", "e", "r">>],
              initializer |-> [node |-> "Literal", type |-> "Number",
                               value |-> [mantissa |-> 23, scale |-> 0]]]>>

(***************************************************************************)
(* Class declarations handed to the parser: class C { members } with up to *)
(* MaxMembers members, the closing '}' present or missing.                 *)
(***************************************************************************)
\* let a ;
FieldLet ==
  [toks |-> <<K("Let"), IdA, K("Semicolon")>>, member |-> "field",
   tree |-> [node |-> "VariableDecl", is_mutable |-> FALSE, name |-> <<"a">>,
             type_annotation |-> None, initializer |-> None]]

\* var b = 1 ;
FieldVar ==
  [toks |-> <<K("Var"), IdB, K("Equal"), Num(<<"1">>), K("Semicolon")>>,
   member |-> "field",
   tree |-> [node |-> "VariableDecl", is_mutable |-> TRUE, name |-> <<"b">>,
             type_annotation |-> None,
             initializer |-> [node |-> "Literal", type |-> "Number",
                              value |-> [mantissa |-> 1, scale |-> 0]]]]

\* fn f ( ) { }
MethodF ==
  [toks |-> <<K("Fn"), Id(<<"f">>)>>
              \o Ks(<<"LeftParen", "RightParen", "LeftBrace", "RightBrace">>),
   member |-> "method",
   tree |-> [node |-> "FunctionDecl", name |-> <<"f">>, params |-> <<>>,
             return_type |-> None, body |-> <<>>]]

\* fn g ( a ) { }
MethodG ==
  [toks |-> <<K("Fn"), Id(<<"g">>), K("LeftParen"), IdA>>
              \o Ks(<<"RightParen", "LeftBrace", "RightBrace">>),
   member |-> "method",
   tree |-> [node |-> "FunctionDecl", name |-> <<"g">>,
             params |-> <<[name |-> <<"a">>, type_annotation |-> None]>>,
             return_type |-> None, body |-> <<>>]]

Members == {FieldLet, FieldVar, MethodF, MethodG}

\* A token that starts neither a field nor a method.
OtherMember(token) == [toks |-> <<token>>, member |-> "other", tree |-> None]

MemberPieces == Members \cup {OtherMember(IdA), OtherMember(K("Semicolon")),
                              OtherMember(K("Class"))}

ClassHead == <<K("Class"), Id(<<"C">>), K("LeftBrace")>>

ClassBuffer(ms, closed) ==
  ClassHead \o Flatten([i \in 1 .. Len(ms) |-> ms[i].toks])
    \o (IF closed THEN <<K("RightBrace")>> ELSE <<>>) \o <<K("Eof")>>

ClassBuffers ==
  {ClassBuffer(ms, closed) : ms \in SeqsUpTo(MemberPieces, MaxMembers),
                             closed \in BOOLEAN}

\* Parser::new(tokens) over a class declaration.
ClassInit ==
  /\ source = <<>>
  /\ input = <<>>
  /\ current = Position(1, 1, 0)
  /\ collected = <<>>
  /\ returned_none = FALSE
  /\ phase = "parse"
  /\ tokens \in ClassBuffers
  /\ parser_current = 0
  /\ declarations = <<>>
  /\ result = Running

ClassSpec == ClassInit /\ [][ParserNext]_vars

\* The member of Members whose tokens stand at toks[i ..] (1-based).
StartsAt(m, toks, i) ==
  /\ i + Len(m.toks) - 1 <= Len(toks)
  /\ SubSeq(toks, i, i + Len(m.toks) - 1) = m.toks

\* The fields and methods from toks[i] on, up to the first token that starts
\* none: [members, next].
RECURSIVE LeadingMembers(_, _, _)
LeadingMembers(toks, i, acc) ==
  IF \E m \in Members : StartsAt(m, toks, i)
  THEN LET m == CHOOSE m \in Members : StartsAt(m, toks, i)
       IN LeadingMembers(toks, i + Len(m.toks), Append(acc, m))
  ELSE [members |-> acc, next |-> i]

TreesOf(ms, member) ==
  LET chosen == SelectSeq(ms, LAMBDA m : m.member = member)
  IN [i \in 1 .. Len(chosen) |-> chosen[i].tree]

MemberMessage ==
  <<"Expected field declaration starting with 'let' or 'var', or a method declaration starting with 'fn'.">>

(***************************************************************************)
(* C21.  Class bodies: in class C { ... } the members that start with let  *)
(* or var are the fields and those that start with fn the methods of the   *)
(* ClassDecl, each list in source order; a token that starts neither,      *)
(* before the closing '}', makes the parse fail; when the '}' is missing   *)
(* before the end of the tokens the parse fails with "Expected '}' after   *)
(* class body"; a failed parse returns no ClassDecl and no other tree.     *)
(***************************************************************************)
C21_ClassBodies ==
  (FirstParsed /\ Len(tokens) > 3 /\ SubSeq(tokens, 1, 3) = ClassHead) =>
    LET lead == LeadingMembers(tokens, 4, <<>>)
        stop == tokens[lead.next].kind
    IN /\ stop = "RightBrace" =>
            /\ declarations =
                 <<[node |-> "ClassDecl", name |-> <<"C">>,
                    fields |-> TreesOf(lead.members, "field"),
                    methods |-> TreesOf(lead.members, "method")]>>
            /\ result.st # "Err"
       /\ stop # "RightBrace" =>
            /\ declarations = <<>>
            /\ result.st = "Err"
            /\ result.statements = <<>>
            /\ result.message = IF stop = "Eof"
                                THEN <<"Expected '}' after class body">>
                                ELSE MemberMessage

\* A class with a method between two fields has been parsed.
C21_Witness ==
  /\ FirstParsed
  /\ tokens = ClassBuffer(<<FieldVar, MethodG, FieldLet>>, TRUE)
  /\ declarations # <<>>
  /\ Len(declarations[1].fields) = 2
  /\ Len(declarations[1].methods) = 1

(***************************************************************************)
(* A run of main next to fresh instances: the texts of the pipeline and    *)
(* the class declarations as token buffers.                                *)
(***************************************************************************)
RerunInit == PipelineInit \/ ClassInit

RerunSpec == RerunInit /\ [][PipelineNext]_vars

\* `while let Some(token) = lexer.next() { acc.push(token) }` from lexer L.
RECURSIVE collect(_, _)
collect(L, acc) ==
  LET r == Lexer_next(L)
  IN IF r.some THEN collect(r.L, Append(acc, r.token)) ELSE acc

\* lex_all of the tests: Lexer::new(source).collect().
lex_all(text) == collect(Lexer_new(text), <<>>)

IsPrefix(s, t) == Len(s) <= Len(t) /\ SubSeq(t, 1, Len(s)) = s

C23_LambdaCheckChangesNothing ==
  /\ \A c \in 0 .. Len(tokens) :
       LET P == [tokens |-> tokens, current |-> c]
           after == lambda_check_call(P)
       IN /\ after.tokens = tokens
          /\ after.current = c
          /\ after.val \in BOOLEAN
          /\ lambda_check_scan(tokens, c, 1) \in c .. Len(tokens)
          /\ ClosingParen(tokens, c + 1) = 0 => ~after.val
  /\ (/\ FirstParsed
      /\ tokens[1].kind = "LeftParen"
      /\ declarations # <<>>
      /\ declarations[1].expr.node = "Lambda") =>
       LET params == declarations[1].expr.params
       IN /\ Len(params) = (ClosingParen(tokens, 2) - 1) \div 2
          /\ \A i \in 1 .. Len(params) : params[i].name = tokens[2 * i].value

\* ( a , b ) -> a ; has been parsed into a Lambda, and the scan of
\* lambda_check ran over four tokens to reach its ')'.
C23_Witness ==
  /\ FirstParsed
  /\ tokens[1].kind = "LeftParen"
  /\ declarations # <<>>
  /\ declarations[1].expr.node = "Lambda"
  /\ Len(declarations[1].expr.params) = 2
  /\ lambda_check_scan(tokens, 1, 1) = 4

(***************************************************************************)
(* The lexer driven to the end: the loop of lex_all and of main calls next *)
(* again as long as it returned a token.                                   *)
(***************************************************************************)
\* Texts of fewer than MaxPieces pieces, with a piece for every arm of next.
CollectPieces ==
  {<<"1">>, <<"a">>, <<"=">>, <<"\"">>, <<":">>, <<" ">>, <<";">>}

CollectInputs == {Flatten(ps) : ps \in SeqsUpTo(CollectPieces, MaxPieces - 1)}

CollectInit ==
  /\ source \in CollectInputs
  /\ input = Lexer_new(source).input
  /\ current = Lexer_new(source).current
  /\ collected = <<>>
  /\ returned_none = FALSE
  /\ phase = "lex"
  /\ tokens = <<>>
  /\ parser_current = 0
  /\ declarations = <<>>
  /\ result = Running

CollectSpec == CollectInit /\ [][Next]_vars /\ WF_vars(Next)

\* What one more call of next returns in the current state.
NextAgain == Lexer_next([input |-> input, current |-> current])

(***************************************************************************)
(* C24.  Lexer progress and termination: a call of next that returns a     *)
(* token consumes at least one character, so the tokens returned never     *)
(* outnumber the characters consumed, nor the n characters of the input;   *)
(* next eventually returns None; once it has, one more call returns None   *)
(* again and leaves the cursor and the input where they are.               *)
(***************************************************************************)
C24_ProgressAndTermination ==
  /\ [](/\ Len(collected) <= Consumed
        /\ Consumed <= Len(source)
        /\ returned_none => (/\ ~NextAgain.some
                             /\ NextAgain.L.current = current
                             /\ NextAgain.L.input = input))
  /\ [][/\ collected' # collected => Len(input') < Len(input)
        /\ Len(input') <= Len(input)
        /\ returned_none => (returned_none' /\ current' = current)]_vars
  /\ <>returned_none

\* next has returned two tokens and then None, all input consumed.
C24_Witness ==
  /\ returned_none
  /\ Len(collected) = 2
  /\ input = <<>>
  /\ Consumed = 2

(***************************************************************************)
(* C25.  Keyword round trip: for each keyword Parser::declaration          *)
(* dispatches on (import, module, class, fn, return, let, var), the text   *)
(* of the keyword lexes to one token, and From turns it into the one       *)
(* parser token of the matching kind (Import, Module, Class, Fn, Return,   *)
(* Let, Var), never an Identifier.                                         *)
(***************************************************************************)
C25_KeywordRoundTrip ==
  \A kw \in DeclarationKeywords :
    (source = kw.text /\ phase # "lex") =>
      /\ tokens = <<K(kw.kind)>>
      /\ tokens[1].kind # "Identifier"

(***************************************************************************)
(* C26.  Parser cursor invariant: over a buffer that ends in Eof, the      *)
(* cursor of parse_program stays in 0 .. tokens.len() - 1, never beyond    *)
(* the Eof token, it never decreases, and no index outside the buffer is   *)
(* read: previous() and previous_token_kind() are not called at cursor 0.  *)
(***************************************************************************)
C26_ParserCursor ==
  /\ [](/\ tokens[Len(tokens)].kind = "Eof"
        /\ parser_current \in 0 .. Len(tokens) - 1
        /\ \A i \in 1 .. parser_current : tokens[i].kind # "Eof"
        /\ result.st # "Panic")
  /\ [][parser_current' >= parser_current]_vars

\* A let declaration (whose parse calls previous_token_kind) has been parsed
\* after another statement, and the parse has ended at the Eof token.
C26_Witness ==
  /\ phase = "done"
  /\ result.st = "Ok"
  /\ Len(declarations) = 2
  /\ declarations[2].node = "VariableDecl"
  /\ parser_current = Len(tokens) - 1

====
